---------------------------- MODULE Spec2Model ----------------------------
(***************************************************************************)
(* The tool registry (MCPToolRegistry), the dispatcher (MCPToolsManager,   *)
(* BaseMCPTool.execute), argument validation                               *)
(* (BaseMCPTool.validateArguments), the session manager                    *)
(* (HumanInLoopLogin), the field locator of FillFormTool                   *)
(* (resolveFieldLocator), the dialog handler (HandleDialogTool) and the    *)
(* request / console record buffers of the browser-automation bot.         *)
(*                                                                         *)
(* JavaScript values are records [t |-> <typeof/array tag>, v |-> <token>] *)
(* so that the type tests of validateArguments are computed, not assumed.  *)
(* An argument object is [isNull, obj]: obj is a function from the own     *)
(* property names to values; Object.entries order is abstracted to the     *)
(* fixed order KeyOrder.                                                   *)
(***************************************************************************)
EXTENDS Integers, Sequences, FiniteSets, TLC

VARIABLES
  reg,        \* MCPToolRegistry.tools: name -> registration (or NoReg)
  regPage,    \* MCPToolRegistry.page / .context
  mgr,        \* MCPToolsManager: initialized flag and its MCPContext
  last,       \* the most recent operation and what it returned or raised
  toggledOff, \* history: names disabled by setEnabled(name, false), with neither
              \* setEnabled(name, true) nor a register of the name since
  val,        \* the validateArguments call under test (SpecValidate)
  login,      \* HumanInLoopLogin: its context and page fields (0 = null)
  frame,      \* the startLogin/restoreSession call in progress or just returned
  world,      \* browser contexts launched and open, files of the profile directory
  loc,        \* the resolveFieldLocator / FillFormTool call under test (SpecLocator)
  probe,      \* the checkIfLoggedIn call under test (SpecProbe)
  locks,      \* lock files of the profile directory and the cleanup of startLogin (SpecLocks)
  dialog,     \* dialog listeners of the page and the dialogs shown (SpecDialog)
  track,      \* request / console records of the pages (SpecTracking)
  nav         \* the navigation loops of startLogin and restoreSession (SpecNavigation)

regVars == <<reg, regPage, mgr, last, toggledOff, val>>

loginVars == <<login, frame, world>>

toolVars == <<loc, probe, locks, dialog, track, nav>>

vars ==
  <<reg, regPage, mgr, last, toggledOff, val, login, frame, world, loc, probe,
    locks, dialog, track, nav>>

(***************************************************************************)
(* JavaScript values                                                       *)
(***************************************************************************)
Str(s) == [t |-> "string", v |-> s]
Num(s) == [t |-> "number", v |-> s]
Bool(s) == [t |-> "boolean", v |-> s]
Arr(s) == [t |-> "array", v |-> s]

\* typeof value
TypeOf(value) == IF value.t = "array" THEN "object" ELSE value.t

\* Array.isArray(value)
IsArray(value) == value.t = "array"

\* Property names every plain object inherits from Object.prototype
\* (toString stands for constructor, valueOf, hasOwnProperty, __proto__, ...).
ProtoKeys == {"toString"}

\* The value found under an inherited name: a function object, which is truthy
\* and has neither a .type nor an .enum property.
ProtoMember ==
  [type |-> "none", hasEnum |-> FALSE, enum |-> {}, hasRange |-> FALSE,
   minimum |-> 0, maximum |-> 0, pattern |-> "none"]

Keys == {"url", "waitUntil", "timeout", "closeBrowser", "bogus", "toString"}

KeyOrder ==
  <<"url", "waitUntil", "timeout", "closeBrowser", "bogus", "toString", "filename",
    "quality">>

EmptyObj == [k \in {} |-> Str("")]

NullArgs == [isNull |-> TRUE, obj |-> EmptyObj]

Obj(f) == [isNull |-> FALSE, obj |-> f]

(***************************************************************************)
(* Tool definitions: inputSchema of the tools                              *)
(***************************************************************************)
\* A property schema: type, enum, minimum / maximum, pattern as declared
Prop(type) ==
  [type |-> type, hasEnum |-> FALSE, enum |-> {}, hasRange |-> FALSE,
   minimum |-> 0, maximum |-> 0, pattern |-> "none"]

PropEnum(type, enum) == [Prop(type) EXCEPT !.hasEnum = TRUE, !.enum = enum]

PropRange(type, minimum, maximum) ==
  [Prop(type) EXCEPT !.hasRange = TRUE, !.minimum = minimum, !.maximum = maximum]

PropPattern(type, pattern) == [Prop(type) EXCEPT !.pattern = pattern]

\* NavigateTool.definition.inputSchema
NavigateSchema ==
  [properties |-> [k \in {"url", "waitUntil", "timeout"} |->
       CASE k = "url" -> Prop("string")
         [] k = "waitUntil" ->
              PropEnum("string", {Str("load"), Str("domcontentloaded"), Str("networkidle")})
         [] k = "timeout" -> PropRange("number", 0, 300000)],
   required |-> <<"url">>,
   additionalProperties |-> FALSE]

\* CloseTool.definition.inputSchema
CloseSchema ==
  [properties |-> [k \in {"closeBrowser"} |-> Prop("boolean")],
   required |-> <<>>,
   additionalProperties |-> FALSE]

\* A caller-defined tool whose MCPToolSchema sets additionalProperties and
\* declares an array property and a required, enumerated one.
CustomSchema ==
  [properties |-> [k \in {"url", "waitUntil"} |->
       CASE k = "url" -> Prop("array")
         [] k = "waitUntil" -> PropEnum("string", {Str("load")})],
   required |-> <<"waitUntil">>,
   additionalProperties |-> TRUE]

\* ScreenshotTool.definition.inputSchema
ScreenshotSchema ==
  [properties |-> [k \in {"filename", "type", "fullPage", "quality", "animations",
                          "caret", "scale", "mask"} |->
       CASE k = "filename" -> PropPattern("string", "^[a-zA-Z0-9._-]+$")
         [] k = "type" -> PropEnum("string", {Str("png"), Str("jpeg")})
         [] k = "fullPage" -> Prop("boolean")
         [] k = "quality" -> PropRange("number", 1, 100)
         [] k = "animations" -> PropEnum("string", {Str("allow"), Str("disabled")})
         [] k = "caret" -> PropEnum("string", {Str("hide"), Str("initial")})
         [] k = "scale" -> PropEnum("string", {Str("css"), Str("device")})
         [] k = "mask" -> Prop("array")],
   required |-> <<>>,
   additionalProperties |-> FALSE]

SchemaOf(id) ==
  CASE id = "navigate" -> NavigateSchema
    [] id = "close" -> CloseSchema
    [] id = "screenshot" -> ScreenshotSchema
    [] OTHER -> CustomSchema

SchemaIds == {"navigate", "close", "custom"}

(***************************************************************************)
(* BaseMCPTool.validateArguments                                           *)
(***************************************************************************)
\* `key in args` for an object: own or inherited property
In(key, obj) == key \in DOMAIN obj \/ key \in ProtoKeys

\* schema.properties[key]; "undefined" is reported by HasProp
HasProp(schema, key) == key \in DOMAIN schema.properties \/ key \in ProtoKeys

PropOf(schema, key) ==
  IF key \in DOMAIN schema.properties THEN schema.properties[key] ELSE ProtoMember

\* Object.entries(args): the own property names, in order
Entries(obj) == SelectSeq(KeyOrder, LAMBDA k : k \in DOMAIN obj)

Err(kind, key) == [kind |-> kind, key |-> key]

\* lines 44-48: one error per required name that is not `in` args
RequiredErrors(schema, obj) ==
  LET miss == SelectSeq(schema.required, LAMBDA r : ~In(r, obj))
  IN  [i \in 1..Len(miss) |-> Err("missing", miss[i])]

\* lines 61-66
typeCheck(propSchema, value) ==
  \/ propSchema.type = "string" /\ TypeOf(value) # "string"
  \/ propSchema.type = "number" /\ TypeOf(value) # "number"
  \/ propSchema.type = "boolean" /\ TypeOf(value) # "boolean"
  \/ propSchema.type = "array" /\ ~IsArray(value)

\* lines 52-72: the errors one entry [key, value] of args adds
EntryErrors(schema, key, value) ==
  IF ~HasProp(schema, key)
  THEN IF ~schema.additionalProperties THEN <<Err("unexpected", key)>> ELSE <<>>
  ELSE LET propSchema == PropOf(schema, key)
       IN  IF typeCheck(propSchema, value) THEN <<Err("type", key)>>
           ELSE IF propSchema.hasEnum /\ value \notin propSchema.enum
                THEN <<Err("enum", key)>>
                ELSE <<>>

RECURSIVE PropertyErrors(_, _, _)
PropertyErrors(schema, obj, keys) ==
  IF keys = <<>> THEN <<>>
  ELSE EntryErrors(schema, Head(keys), obj[Head(keys)])
         \o PropertyErrors(schema, obj, Tail(keys))

\* validateArguments(args): threw = a TypeError raised by `required in args`
\* or Object.entries(args) when args is null.
validateArguments(schema, args) ==
  IF args.isNull
  THEN [threw |-> TRUE, valid |-> FALSE, errors |-> <<>>]
  ELSE LET errors == RequiredErrors(schema, args.obj)
                       \o PropertyErrors(schema, args.obj, Entries(args.obj))
       IN  [threw |-> FALSE, valid |-> Len(errors) = 0, errors |-> errors]


(***************************************************************************)
(* Pages, contexts and tool instances                                      *)
(***************************************************************************)
\* A live (page, context) pair handed to initialize / updatePageContext.
Sessions == {[page |-> "p1", context |-> "c1"]}

NoSession == [page |-> "null", context |-> "null"]

\* An MCPContext as a direct caller of BaseMCPTool.execute may pass it.
CallerContexts == {NoSession, [page |-> "p1", context |-> "null"]}

\* The tool classes: two of the manager's catalog.
ToolClasses == {"NavigateTool", "CloseTool"}

\* The classes MCPToolsManager.registerAllTools registers, in its order.
Catalog == <<"NavigateTool", "CloseTool">>

\* definition.name
NameOf(class) ==
  IF class = "NavigateTool" THEN "browser_navigate" ELSE "browser_close"

\* definition.inputSchema
SchemaIdOf(class) == IF class = "NavigateTool" THEN "navigate" ELSE "close"

\* The category registerAllTools passes for a catalog class.
CategoryOf(class) == IF class = "NavigateTool" THEN "navigation" ELSE "browser"

ToolNames == {NameOf(c) : c \in ToolClasses}

\* Names a caller may ask for: the registrable ones and one no tool has.
AllNames == ToolNames \cup {"browser_unknown"}

\* The identity of a newly constructed instance: a tag that tells it from the
\* instance registered under the same name before it.
FreshId(r, name) == IF r[name].id = 1 THEN 2 ELSE 1

\* new XTool(page, context): a fresh instance
NewTool(id, class, session) ==
  [id |-> id, schema |-> SchemaIdOf(class), page |-> session.page,
   context |-> session.context]

(***************************************************************************)
(* MCPToolRegistry                                                         *)
(***************************************************************************)
\* tools.get(name) === undefined
NoReg ==
  [present |-> FALSE, id |-> 0, schema |-> "none", page |-> "null",
   context |-> "null", category |-> "undefined", tags |-> {},
   enabled |-> "undefined"]

\* What a caller gets instead of a tool: null
NullTool == [id |-> 0, schema |-> "none", page |-> "null", context |-> "null"]

ToolOf(registration) ==
  [id |-> registration.id, schema |-> registration.schema,
   page |-> registration.page, context |-> registration.context]

\* JavaScript truthiness of metadata.enabled
Truthy(enabled) == enabled = "true"

\* The ToolMetadata a caller may pass to register; "absent" = key not given.
MetaChoices ==
  {[category |-> "absent", tags |-> {}, enabled |-> "absent"],
   [category |-> "browser", tags |-> {"destructive"}, enabled |-> "absent"],
   [category |-> "navigation", tags |-> {}, enabled |-> "false"],
   [category |-> "browser", tags |-> {"destructive"}, enabled |-> "undefined"]}

\* register(tool, metadata): set under definition.name; metadata is
\* { enabled: true, ...metadata }; the tool takes the registry's page/context
\* when the registry has both.
registerMutantKeepsFlag(r, rp, name, tool, meta) ==
  [r EXCEPT ![name] =
     [present |-> TRUE, id |-> tool.id, schema |-> tool.schema,
      page |-> tool.page, context |-> tool.context,
      category |-> IF meta.category = "absent" THEN "undefined" ELSE meta.category,
      tags |-> meta.tags,
      enabled |-> IF r[name].present THEN r[name].enabled ELSE "true"]]

register(r, rp, name, tool, meta) ==
  LET both == rp.page # "null" /\ rp.context # "null"
  IN  [r EXCEPT ![name] =
         [present |-> TRUE, id |-> tool.id, schema |-> tool.schema,
          page |-> IF both THEN rp.page ELSE tool.page,
          context |-> IF both THEN rp.context ELSE tool.context,
          category |-> IF meta.category = "absent" THEN "undefined" ELSE meta.category,
          tags |-> meta.tags,
          enabled |-> IF meta.enabled = "absent" THEN "true" ELSE meta.enabled]]

\* get(name) that forgets the enabled flag
getMutantIgnoresFlag(r, name) == IF r[name].present THEN ToolOf(r[name]) ELSE NullTool

\* get(name): the tool when registered and enabled, else null
get(r, name) == IF Truthy(r[name].enabled) THEN ToolOf(r[name]) ELSE NullTool

\* has(name)
has(r, name) == r[name].enabled = "true"

\* listDefinitions() that lists every registered tool
listDefinitionsMutantAll(r) ==
  {[name |-> n, schema |-> r[n].schema] : n \in {m \in DOMAIN r : r[m].present}}

\* listDefinitions(): the definitions (name and schema) of the enabled tools
listDefinitions(r) ==
  {[name |-> n, schema |-> r[n].schema] : n \in {m \in DOMAIN r : r[m].present /\ Truthy(r[m].enabled)}}

\* getByCategory(category)
getByCategory(r, category) ==
  {ToolOf(r[n]) : n \in {m \in DOMAIN r :
      r[m].present /\ r[m].category = category /\ Truthy(r[m].enabled)}}

\* getByTag(tag)
getByTag(r, tag) ==
  {ToolOf(r[n]) : n \in {m \in DOMAIN r :
      r[m].present /\ tag \in r[m].tags /\ Truthy(r[m].enabled)}}

\* setEnabled(name, false) that deletes the registration
setEnabledMutantDeletes(r, name, enabled) ==
  IF r[name].present
  THEN IF enabled THEN [r EXCEPT ![name].enabled = "true"] ELSE [r EXCEPT ![name] = NoReg]
  ELSE r

\* setEnabled(name, enabled): metadata = { ...metadata, enabled } when registered
setEnabled(r, name, enabled) ==
  IF r[name].present
  THEN [r EXCEPT ![name].enabled = IF enabled THEN "true" ELSE "false"]
  ELSE r

\* setPageContext(page, context): every registered tool takes the pair
setPageContext(r, session) ==
  [n \in DOMAIN r |->
     IF r[n].present
     THEN [r[n] EXCEPT !.page = session.page, !.context = session.context]
     ELSE r[n]]

\* getStats()
getStats(r) ==
  LET regs == {n \in DOMAIN r : r[n].present}
  IN  [total |-> Cardinality(regs),
       enabled |-> Cardinality({n \in regs : Truthy(r[n].enabled)}),
       disabled |-> Cardinality({n \in regs : ~Truthy(r[n].enabled)}),
       categories |-> {r[n].category : n \in {m \in regs : r[m].category # "undefined"}},
       tags |-> UNION {r[n].tags : n \in regs}]

(***************************************************************************)
(* BaseMCPTool.execute                                                     *)
(***************************************************************************)
\* What a handler (_execute) may do once it runs: return a text result, return
\* an error result, raise an Error, raise a value that is not an Error.
HandlerBehaviours == {"ok", "errorResult", "throwError", "throwValue"}

\* The message of the Error a handler raises.
HandlerMessage == "boom"

NotCalled ==
  [called |-> FALSE, thrown |-> FALSE, isError |-> FALSE, kind |-> "NONE",
   text |-> "", detail |-> "", errors |-> <<>>, handler |-> "notRun",
   page |-> "null", context |-> "null"]

Result(thrown, isError, kind, text, detail, errors, handler, page, context) ==
  [called |-> TRUE, thrown |-> thrown, isError |-> isError, kind |-> kind,
   text |-> text, detail |-> detail, errors |-> errors, handler |-> handler,
   page |-> page, context |-> context]

\* lines 28-35: the call of _execute inside try/catch
runHandlerMutantNoCatch(beh, page, ctx) ==
  CASE beh = "ok" -> Result(FALSE, FALSE, "OK", "done", "", <<>>, beh, page, ctx)
    [] beh = "errorResult" ->
         Result(FALSE, TRUE, "HANDLER_ERROR", "failed", "", <<>>, beh, page, ctx)
    [] OTHER -> Result(TRUE, FALSE, "UNCAUGHT", "", "", <<>>, beh, page, ctx)

runHandler(beh, page, ctx) ==
  CASE beh = "ok" -> Result(FALSE, FALSE, "OK", "done", "", <<>>, beh, page, ctx)
    [] beh = "errorResult" ->
         Result(FALSE, TRUE, "HANDLER_ERROR", "failed", "", <<>>, beh, page, ctx)
    [] beh = "throwError" ->
         Result(FALSE, TRUE, "EXECUTION_ERROR", "Tool execution failed: ",
                HandlerMessage, <<>>, beh, page, ctx)
    [] OTHER ->
         Result(FALSE, TRUE, "EXECUTION_ERROR", "Tool execution failed: ",
                "Unknown error", <<>>, beh, page, ctx)

\* execute(args, context) with the handler run without the page/context check
executeMutantNoSessionCheck(tool, args, context, beh) ==
  LET validation == validateArguments(SchemaOf(tool.schema), args)
      page == IF context.page # "null" THEN context.page ELSE tool.page
      ctx == IF context.context # "null" THEN context.context ELSE tool.context
  IN  IF validation.threw
      THEN Result(TRUE, FALSE, "TYPE_ERROR", "", "", <<>>, "notRun", "null", "null")
      ELSE IF ~validation.valid
      THEN Result(FALSE, TRUE, "VALIDATION_ERROR", "Argument validation failed: ",
                  "", validation.errors, "notRun", "null", "null")
      ELSE runHandler(beh, page, ctx)

\* execute(args, context) with the page/context check made before validation
executeMutantSessionFirst(tool, args, context, beh) ==
  LET validation == validateArguments(SchemaOf(tool.schema), args)
      page == IF context.page # "null" THEN context.page ELSE tool.page
      ctx == IF context.context # "null" THEN context.context ELSE tool.context
  IN  IF page = "null" \/ ctx = "null"
      THEN Result(FALSE, TRUE, "NO_ACTIVE_SESSION", "No browser page/context available",
                  "", <<>>, "notRun", "null", "null")
      ELSE IF validation.threw
      THEN Result(TRUE, FALSE, "TYPE_ERROR", "", "", <<>>, "notRun", "null", "null")
      ELSE IF ~validation.valid
      THEN Result(FALSE, TRUE, "VALIDATION_ERROR", "Argument validation failed: ",
                  "", validation.errors, "notRun", "null", "null")
      ELSE runHandler(beh, page, ctx)

\* execute(args, context): validation (outside the try), then page/context
\* resolution (the caller's, else the tool's own), then the handler
execute(tool, args, context, beh) ==
  LET validation == validateArguments(SchemaOf(tool.schema), args)
      page == IF context.page # "null" THEN context.page ELSE tool.page
      ctx == IF context.context # "null" THEN context.context ELSE tool.context
  IN  IF validation.threw
      THEN Result(TRUE, FALSE, "TYPE_ERROR", "", "", <<>>, "notRun", "null", "null")
      ELSE IF ~validation.valid
      THEN Result(FALSE, TRUE, "VALIDATION_ERROR", "Argument validation failed: ",
                  "", validation.errors, "notRun", "null", "null")
      ELSE IF page = "null" \/ ctx = "null"
      THEN Result(FALSE, TRUE, "NO_ACTIVE_SESSION", "No browser page/context available",
                  "", <<>>, "notRun", "null", "null")
      ELSE runHandler(beh, page, ctx)

(***************************************************************************)
(* MCPToolsManager                                                         *)
(***************************************************************************)
\* The manager's MCPContext
MgrContext(m) == [page |-> m.page, context |-> m.context]

RECURSIVE registerAll(_, _, _, _)
registerAll(r, rp, classes, session) ==
  IF classes = <<>> THEN r
  ELSE registerAll(
         register(r, rp, NameOf(Head(classes)),
                  NewTool(FreshId(r, NameOf(Head(classes))), Head(classes), session),
                  [category |-> CategoryOf(Head(classes)), tags |-> {}, enabled |-> "absent"]),
         rp, Tail(classes), session)

\* registerAllTools(): one new instance of every catalog class
registerAllTools(r, rp, session) == registerAll(r, rp, Catalog, session)

\* What executeTool hands back: thrown, or { success: true, ... }
Outcome(thrown, kind, exec) == [thrown |-> thrown, kind |-> kind, exec |-> exec]

\* executeTool(name, args)
executeTool(m, r, name, args, beh) ==
  IF ~m.initialized THEN Outcome(TRUE, "NOT_INITIALIZED", NotCalled)
  ELSE LET tool == get(r, name)
       IN  IF tool = NullTool THEN Outcome(TRUE, "TOOL_NOT_FOUND", NotCalled)
           ELSE LET result == execute(tool, args, MgrContext(m), beh)
                IN  IF result.thrown THEN Outcome(TRUE, result.kind, result)
                    ELSE IF result.isError THEN Outcome(TRUE, result.kind, result)
                    ELSE Outcome(FALSE, "OK", result)

(***************************************************************************)
(* HumanInLoopLogin: the session manager                                   *)
(*                                                                         *)
(* A browser context is a number 1, 2, ... in launch order and its page    *)
(* carries the same number; 0 is null.  What the browser and the file      *)
(* system answer (a launch, a navigation attempt, the DOM a probe sees, a  *)
(* close, the steps of saveSession) is chosen by the environment at each   *)
(* await.                                                                  *)
(***************************************************************************)
\* navigateToFacebook: const maxAttempts
maxAttempts == 3

\* waitForManualLogin: const maxWaitTime (ms)
maxWaitTime == 180000

\* waitForManualLogin: const checkInterval (ms)
checkInterval == 2000

\* Browser contexts one HumanInLoopLogin launches in a behaviour
MaxLaunches == 3

\* private context / private page, both null
NoLogin == [context |-> 0, page |-> 0]

\* What page.$ finds: some LOGIN_SELECTORS element, some LOGGED_IN_SELECTORS
\* element
Doms == [login : BOOLEAN, loggedIn : BOOLEAN]

\* checkIfLoggedIn that skips the login indicators
checkIfLoggedInMutantOpen(page, dom) == page # 0 /\ dom.loggedIn

\* checkIfLoggedIn(): false without a page, false when a login indicator is
\* present, else whether a logged-in indicator is present
checkIfLoggedIn(page, dom) ==
  IF page = 0 THEN FALSE
  ELSE IF dom.login THEN FALSE
  ELSE dom.loggedIn

\* const LOGIN_SELECTORS
LOGIN_SELECTORS ==
  <<"input[type=\"email\"]", "input[type=\"password\"]", "input[name=\"email\"]",
    "input[name=\"pass\"]", "[data-testid=\"royal_email\"]">>

\* const LOGGED_IN_SELECTORS
LOGGED_IN_SELECTORS ==
  <<"[aria-label*=\"Account\"]", "[data-testid=\"bluebar_profile_root\"]",
    "a[href*=\"/me\"][role=\"link\"]",
    "[data-visualcompletion=\"ignore-dynamic\"] svg[aria-label=\"Account\"]",
    "[role=\"complementary\"]", "[role=\"main\"]", "[aria-label*=\"Messenger\"]">>

Selectors ==
  {LOGIN_SELECTORS[i] : i \in DOMAIN LOGIN_SELECTORS} \cup
  {LOGGED_IN_SELECTORS[i] : i \in DOMAIN LOGGED_IN_SELECTORS}

\* await this.page.$(selector): an element, null, or an exception
QueryAnswers == {"element", "null", "throws"}

\* One for loop of checkIfLoggedIn over selectors: query each in order until a
\* query yields an element; a query that raises is skipped (continue).
\* found is that selector ("" when none), queried the queries made.
RECURSIVE scanSelectors(_, _, _)
scanSelectors(answers, selectors, queried) ==
  IF selectors = <<>> THEN [found |-> "", queried |-> queried]
  ELSE IF answers[Head(selectors)] = "element"
  THEN [found |-> Head(selectors), queried |-> Append(queried, Head(selectors))]
  ELSE scanSelectors(answers, Tail(selectors), Append(queried, Head(selectors)))

\* checkIfLoggedIn that looks for the logged-in indicators first
checkIfLoggedInQueriesMutantLoggedInFirst(page, answers) ==
  LET second == scanSelectors(answers, LOGGED_IN_SELECTORS, <<>>)
      first == scanSelectors(answers, LOGIN_SELECTORS, second.queried)
  IN  IF page = 0 THEN [isLoggedIn |-> FALSE, matched |-> "", queried |-> <<>>]
      ELSE IF second.found # ""
      THEN [isLoggedIn |-> TRUE, matched |-> second.found, queried |-> second.queried]
      ELSE [isLoggedIn |-> FALSE, matched |-> "", queried |-> first.queried]

\* checkIfLoggedIn(), query by query: false without a page; false at the first
\* LOGIN_SELECTORS element; else true at the first LOGGED_IN_SELECTORS element
\* (the selector is logged); else false.
checkIfLoggedInQueries(page, answers) ==
  LET first == scanSelectors(answers, LOGIN_SELECTORS, <<>>)
      second == scanSelectors(answers, LOGGED_IN_SELECTORS, first.queried)
  IN  IF page = 0 THEN [isLoggedIn |-> FALSE, matched |-> "", queried |-> <<>>]
      ELSE IF first.found # ""
      THEN [isLoggedIn |-> FALSE, matched |-> "", queried |-> first.queried]
      ELSE IF second.found # ""
      THEN [isLoggedIn |-> TRUE, matched |-> second.found, queried |-> second.queried]
      ELSE [isLoggedIn |-> FALSE, matched |-> "", queried |-> second.queried]

\* What page.$ finds under the answers: an element of either list
DomOf(answers) ==
  [login |-> \E i \in DOMAIN LOGIN_SELECTORS : answers[LOGIN_SELECTORS[i]] = "element",
   loggedIn |-> \E i \in DOMAIN LOGGED_IN_SELECTORS :
                  answers[LOGGED_IN_SELECTORS[i]] = "element"]

\* No checkIfLoggedIn call made yet
NoProbe ==
  [done |-> FALSE, page |-> 0, answers |-> [s \in Selectors |-> "null"],
   result |-> [isLoggedIn |-> FALSE, matched |-> "", queried |-> <<>>]]

\* What one attempt of navigateToFacebook meets: the page loads with a title
\* holding 'Facebook' or 'Log In', it loads with another title, or goto (or
\* title) raises
NavOutcomes == {"loaded", "otherTitle", "throws"}

\* navigateToFacebook that gives up one attempt early
navigateStepMutantFewer(attempt, outcome) ==
  [verdict |-> IF outcome = "loaded" THEN "succeeded"
               ELSE IF attempt + 1 < maxAttempts THEN "again"
               ELSE "failed",
   waited |-> outcome = "throws" /\ attempt < maxAttempts]

\* navigateToFacebook that tries once more than maxAttempts
navigateStepMutantMore(attempt, outcome) ==
  [verdict |-> IF outcome = "loaded" THEN "succeeded"
               ELSE IF attempt <= maxAttempts THEN "again"
               ELSE "failed",
   waited |-> outcome = "throws" /\ attempt < maxAttempts]

\* One iteration of the for loop of navigateToFacebook, attempt being the loop
\* variable: return true on an expected title; after an exception wait 3 s
\* unless this was the last attempt; then attempt++ and the test
\* attempt <= maxAttempts, after which the method returns false.
navigateStep(attempt, outcome) ==
  [verdict |-> IF outcome = "loaded" THEN "succeeded"
               ELSE IF attempt + 1 <= maxAttempts THEN "again"
               ELSE "failed",
   waited |-> outcome = "throws" /\ attempt < maxAttempts]

\* waitForManualLogin whose ceiling test admits elapsed = maxWaitTime
pollStepMutantInclusive(elapsed, isLoggedIn) ==
  IF isLoggedIn THEN [verdict |-> "true", elapsed |-> elapsed]
  ELSE [verdict |-> IF elapsed + checkInterval <= maxWaitTime THEN "again" ELSE "false",
        elapsed |-> elapsed + checkInterval]

\* waitForManualLogin that waits before it probes
pollStepMutantWaitFirst(elapsed, isLoggedIn) ==
  IF isLoggedIn THEN [verdict |-> "true", elapsed |-> elapsed + checkInterval]
  ELSE [verdict |-> IF elapsed + checkInterval < maxWaitTime THEN "again" ELSE "false",
        elapsed |-> elapsed + checkInterval]

\* waitForManualLogin that returns true when the ceiling is reached
pollStepMutantTrueAtCeiling(elapsed, isLoggedIn) ==
  IF isLoggedIn THEN [verdict |-> "true", elapsed |-> elapsed]
  ELSE [verdict |-> IF elapsed + checkInterval < maxWaitTime THEN "again" ELSE "true",
        elapsed |-> elapsed + checkInterval]


\* One iteration of the while loop of waitForManualLogin, entered with
\* elapsed < maxWaitTime: return true when the probe saw the logged-in state,
\* else wait checkInterval, add it to elapsed and test elapsed < maxWaitTime
\* again, after which the method returns false.
pollStep(elapsed, isLoggedIn) ==
  IF isLoggedIn THEN [verdict |-> "true", elapsed |-> elapsed]
  ELSE [verdict |-> IF elapsed + checkInterval < maxWaitTime THEN "again" ELSE "false",
        elapsed |-> elapsed + checkInterval]

\* No DOM probed
NoDom == [login |-> FALSE, loggedIn |-> FALSE]

\* No call made yet.  attempts, waits (the 3 s waits after failed attempts),
\* elapsed, probes, misses (probes answered false) and saves count what the
\* call has done; launched is the context the call launched; before is the
\* pair of fields at the call; seen is the answer of the last probe and dom
\* the DOM it was given (kept for the one probe of restoreSession and for a
\* probe of waitForManualLogin answered true); onlyLoginPages: every probe
\* answered false saw a login indicator; saved is what saveSession met; for
\* close(), closed is the context it closed and touched tells that it operated
\* on a page or context already closed; ret is "true", "false", "returned"
\* (close) or "raised" once the call has ended.
NoCall ==
  [call |-> "none", pc |-> "idle", attempts |-> 0, waits |-> 0, elapsed |-> 0,
   probes |-> 0, misses |-> 0, saves |-> 0, launched |-> 0, nav |-> "none",
   seen |-> FALSE, dom |-> NoDom, onlyLoginPages |-> TRUE, before |-> NoLogin,
   saved |-> "none", shot |-> "none", closed |-> 0, touched |-> FALSE,
   ret |-> "none"]

\* A profile directory never used: no browser launched, no cookies.json, no
\* state.json; confirmed: some startLogin or restoreSession has returned true;
\* pristine: the directory held neither file at first
NewWorld ==
  [launches |-> 0, open |-> {}, cookies |-> FALSE, state |-> FALSE,
   confirmed |-> FALSE, pristine |-> TRUE]

\* The profile directory as an earlier process may have left it
Worlds ==
  {[NewWorld EXCEPT !.cookies = c, !.state = s, !.pristine = ~c /\ ~s] : c, s \in BOOLEAN}

\* context.close() that leaves the context open
closeContextMutantNoop(w, context) == w

\* context.close(): the context is open no longer
closeContext(w, context) == [w EXCEPT !.open = @ \ {context}]

\* chromium.launchPersistentContext: a new open context
launch(w) == [w EXCEPT !.launches = @ + 1, !.open = @ \cup {w.launches + 1}]


(***************************************************************************)
(* FillFormTool: resolveFieldLocator                                       *)
(***************************************************************************)
\* Longest identifier list, longest fallback list and longest fields array tried
MaxIdentifiers == 2

MaxFallbacks == 2

MaxFields == 2

\* The value undefined
Undefined == [t |-> "undefined", v |-> "undefined"]

\* identifier.trim(), on the strings of the model
trim(s) == IF s = " " THEN "" ELSE s

\* What a caller may put in the identifiers array
IdentifierValues == {Undefined, Str(""), Str(" "), Str("A"), Str("B")}

SeqsUpTo(S, n) == UNION {[1..k -> S] : k \in 0..n}

\* The filter predicate: typeof identifier === 'string' && identifier.trim().length > 0
isIdentifier(identifier) == TypeOf(identifier) = "string" /\ trim(identifier.v) # ""

\* Array.from(new Set(...)): the first occurrence of each element, in order
RECURSIVE fromSet(_, _)
fromSet(list, seen) ==
  IF list = <<>> THEN <<>>
  ELSE IF Head(list) \in seen THEN fromSet(Tail(list), seen)
  ELSE <<Head(list)>> \o fromSet(Tail(list), seen \cup {Head(list)})

\* uniqueIdentifiers without the Set
uniqueIdentifiersMutantNoSet(identifiers) ==
  LET kept == SelectSeq(identifiers, isIdentifier)
  IN  [i \in 1..Len(kept) |-> kept[i].v]

\* const uniqueIdentifiers = Array.from(new Set(identifiers.filter(...)))
uniqueIdentifiers(identifiers) ==
  LET kept == SelectSeq(identifiers, isIdentifier)
  IN  fromSet([i \in 1..Len(kept) |-> kept[i].v], {})

\* A locator factory: the page method it calls, its exact option, the
\* identifier (or the field name of a CSS fallback); selector and value are
\* the field type and the [value=...] part of a CSS fallback, "" otherwise
Factory(strategy, exact, identifier) ==
  [strategy |-> strategy, exact |-> exact, identifier |-> identifier,
   selector |-> "", value |-> ""]

NoFactory == Factory("none", FALSE, "")

\* page.locator(`...[name="${name}"]...`).first() as built by _execute for a field
cssLocator(type, name, value) ==
  [strategy |-> "locator", exact |-> FALSE, identifier |-> name,
   selector |-> type, value |-> value]

\* The four factories pushed for one identifier
identifierFactories(identifier) ==
  << Factory("getByLabel", TRUE, identifier),
     Factory("getByLabel", FALSE, identifier),
     Factory("getByPlaceholder", TRUE, identifier),
     Factory("getByPlaceholder", FALSE, identifier) >>

RECURSIVE pushAll(_)
pushAll(list) ==
  IF list = <<>> THEN <<>>
  ELSE identifierFactories(Head(list)) \o pushAll(Tail(list))

\* locatorFactories: four per unique identifier, then the fallbacks
locatorFactories(identifiers, fallbackLocators) ==
  pushAll(uniqueIdentifiers(identifiers)) \o fallbackLocators

\* locator.waitFor({ timeout }) returns (TRUE) or raises at the timeout
\* (FALSE): the page is the set of factories whose element shows up in time
waitFor(page, factory) == factory \in page

\* for (const factory of locatorFactories) { try { waitFor; return } catch { continue } }
RECURSIVE tryFactories(_, _, _)
tryFactories(page, factories, invoked) ==
  IF factories = <<>>
  THEN [invoked |-> invoked, found |-> NoFactory, threw |-> TRUE]
  ELSE IF waitFor(page, Head(factories))
  THEN [invoked |-> Append(invoked, Head(factories)), found |-> Head(factories),
        threw |-> FALSE]
  ELSE tryFactories(page, Tail(factories), Append(invoked, Head(factories)))

\* identifierMessage: uniqueIdentifiers.join(', ') as the list of its parts
identifierMessage(unique) ==
  IF Len(unique) > 0 THEN unique ELSE <<"no accessible identifiers">>

\* resolveFieldLocator that builds and waits on every locator before choosing
resolveFieldLocatorMutantEager(page, identifiers, fallbackLocators) ==
  LET factories == locatorFactories(identifiers, fallbackLocators)
      hits == {i \in 1..Len(factories) : waitFor(page, factories[i])}
      first == CHOOSE i \in hits : \A j \in hits : i <= j
  IN  [factories |-> factories, invoked |-> factories,
       found |-> IF hits = {} THEN NoFactory ELSE factories[first],
       threw |-> hits = {},
       message |-> IF hits = {} THEN identifierMessage(uniqueIdentifiers(identifiers))
                   ELSE <<>>]

\* resolveFieldLocator that hands back its last locator instead of raising
resolveFieldLocatorMutantLastLocator(page, identifiers, fallbackLocators) ==
  LET factories == locatorFactories(identifiers, fallbackLocators)
      r == tryFactories(page, factories, <<>>)
  IN  [factories |-> factories, invoked |-> r.invoked,
       found |-> IF r.threw /\ factories # <<>> THEN factories[Len(factories)]
                 ELSE r.found,
       threw |-> r.threw /\ factories = <<>>,
       message |-> IF r.threw /\ factories = <<>>
                   THEN identifierMessage(uniqueIdentifiers(identifiers)) ELSE <<>>]

\* resolveFieldLocator(page, identifiers, timeout, fallbackLocators): the
\* factories built, those invoked in order, the locator returned or the Error
\* raised with its message (timeout only bounds each waitFor)
resolveFieldLocator(page, identifiers, fallbackLocators) ==
  LET factories == locatorFactories(identifiers, fallbackLocators)
      r == tryFactories(page, factories, <<>>)
  IN  [factories |-> factories, invoked |-> r.invoked, found |-> r.found,
       threw |-> r.threw,
       message |-> IF r.threw THEN identifierMessage(uniqueIdentifiers(identifiers))
                   ELSE <<>>]

NoResolve ==
  [factories |-> <<>>, invoked |-> <<>>, found |-> NoFactory, threw |-> FALSE,
   message |-> <<>>]

\* The field types of the inputSchema enum, in its order
FieldTypes == <<"textbox", "checkbox", "radio", "combobox", "slider">>

\* Fallback factories a caller passes: its first n CSS locators
fallbacksOf(n) == [i \in 1..n |-> cssLocator(FieldTypes[i], "A", "")]

\* The pages resolveFieldLocator is tried on
Pages ==
  SUBSET ({identifierFactories(id)[k] : id \in {"A", "B"}, k \in 1..4}
          \cup {fallbacksOf(MaxFallbacks)[i] : i \in 1..MaxFallbacks})

(***************************************************************************)
(* FillFormTool._execute                                                   *)
(***************************************************************************)
\* One line of results: what was done to the field, or the message of the
\* Error caught for it
Line(kind, name, message) == [kind |-> kind, name |-> name, message |-> message]

\* const radioValue = Array.isArray(value) ? value[0] : value (no array values here)
radioValue(value) == value

\* The identifiers and the fallback _execute passes for a field
identifiersOf(field) ==
  IF field.type = "radio"
  THEN << IF TypeOf(radioValue(field.value)) = "string" THEN radioValue(field.value)
          ELSE Undefined,
          Str(field.name) >>
  ELSE << Str(field.name) >>

fallbackOf(field) ==
  IF field.type = "radio"
  THEN << cssLocator("radio", field.name,
                     IF radioValue(field.value).t \notin {"undefined", "null"}
                     THEN radioValue(field.value).v ELSE "") >>
  ELSE << cssLocator(field.type, field.name, "") >>

\* The body of the for loop for one field: switch (type) inside try/catch
\* (the fill / check / selectOption on a located element succeeds)
fillField(page, field) ==
  IF field.type \notin {FieldTypes[i] : i \in 1..Len(FieldTypes)}
  THEN [line |-> Line("Unknown field type", field.name, <<>>), exhausted |-> FALSE]
  ELSE LET r == resolveFieldLocator(page, identifiersOf(field), fallbackOf(field))
       IN  IF r.threw
           THEN [line |-> Line("Failed to fill", field.name, r.message),
                 exhausted |-> TRUE]
           ELSE [line |-> Line(field.type, field.name, <<>>), exhausted |-> FALSE]

\* submitLocators
submitLocators ==
  << Factory("getByRole", FALSE, "submit"), cssLocator("submit", "", "") >>

\* _execute(args, context): the lines of results, the fields whose locator was
\* exhausted, and whether it raised 'Unable to locate submit button' instead
\* of returning textResult('Form filled successfully:...')
fillForm(page, fields, submit) ==
  LET done == [i \in 1..Len(fields) |-> fillField(page, fields[i])]
      submitted == \E i \in 1..Len(submitLocators) : waitFor(page, submitLocators[i])
  IN  [results |-> [i \in 1..Len(fields) |-> done[i].line]
                   \o (IF submit /\ submitted
                       THEN <<Line("Form submitted", "", <<>>)>> ELSE <<>>),
       exhausted |-> {i \in 1..Len(fields) : done[i].exhausted},
       threw |-> submit /\ ~submitted]

\* The fields and pages browser_fill_form is called with
FieldNames == {"A", "B"}

FieldValues == {Str("A"), Undefined}

Fields == [name : FieldNames, type : {"textbox", "radio", "checkbox", "bogus"},
           value : FieldValues]

FormPages ==
  {found \cup buttons :
     found \in {{}, {Factory("getByLabel", TRUE, "A")},
                {Factory("getByLabel", TRUE, "A"), Factory("getByPlaceholder", FALSE, "B")},
                {cssLocator("textbox", "A", ""), cssLocator("radio", "B", "A")}},
     buttons \in {{}, {submitLocators[1]}, {submitLocators[2]}}}

\* No call made yet
NoLoc ==
  [done |-> FALSE, call |-> "none", page |-> {}, identifiers |-> <<>>,
   fallbackLocators |-> <<>>, resolved |-> NoResolve, fields |-> <<>>,
   submit |-> FALSE, results |-> <<>>, exhausted |-> {}, result |-> NotCalled]

(***************************************************************************)
(* startLogin: the lock files of the profile directory                     *)
(***************************************************************************)
\* Most startLogin calls followed
MaxStarts == 5

\* The files startLogin unlinks, in the order it does
LockFiles == <<"SingletonLock", "SingletonSocket">>

Locks == {LockFiles[i] : i \in 1..Len(LockFiles)}

\* fs.unlink(file): rejects when the file is absent (ENOENT) or may not be
\* removed (denied: EPERM, EBUSY)
unlinkRejects(files, denied, file) == file \notin files \/ file \in denied

\* try { unlink(SingletonLock); unlink(SingletonSocket) } catch {}: the files
\* left, the unlink calls made, and whether anything leaves the block
unlinkLocks(files, denied) ==
  IF unlinkRejects(files, denied, LockFiles[1])
  THEN [files |-> files, unlinked |-> <<LockFiles[1]>>, raised |-> FALSE]
  ELSE IF unlinkRejects(files, denied, LockFiles[2])
  THEN [files |-> files \ {LockFiles[1]}, unlinked |-> LockFiles, raised |-> FALSE]
  ELSE [files |-> files \ Locks, unlinked |-> LockFiles, raised |-> FALSE]

\* No startLogin yet, no lock file in the profile directory
NoLocks ==
  [files |-> {}, before |-> {}, denied |-> {}, unlinked |-> <<>>, starts |-> 0,
   pc |-> "idle"]

(***************************************************************************)
(* HandleDialogTool                                                        *)
(***************************************************************************)
\* Most browser_handle_dialog calls and most dialogs followed
MaxRegistrations == 3

MaxDialogs == 2

DialogTypes == {"alert", "confirm", "prompt"}

\* The promptText argument: absent, empty, a text
PromptTexts == {Undefined, Str(""), Str("hi")}

\* if (promptText && ...): a non-empty string
hasPromptText(value) == value.t = "string" /\ value.v # ""

\* The body of the listener: what it calls on the dialog
answerOf(registration, type) ==
  IF hasPromptText(registration.promptText) /\ type = "prompt" THEN "accept(promptText)"
  ELSE IF registration.accept THEN "accept()"
  ELSE "dismiss()"

\* page.on instead of page.once: the listeners stay
afterEmitMutantOn(listeners) == listeners

\* page.once: a listener is removed when the event it waited for is emitted
afterEmit(listeners) == <<>>

\* page.emit('dialog', dialog): every listener is called, in the order of
\* registration, and makes its call on the dialog; the dialog takes the first
\* call and rejects a later one ('already handled')
callsOf(listeners, type) ==
  [i \in 1..Len(listeners) |->
     [by |-> listeners[i].id, action |-> answerOf(listeners[i], type),
      rejected |-> i > 1]]

\* No handler registered, no dialog shown
NoDialog == [listeners |-> <<>>, registered |-> 0, dialogs |-> <<>>]

(***************************************************************************)
(* Request and console tracking                                            *)
(***************************************************************************)
MAX_TRACKED_ENTRIES == 2000

\* Most events followed after the first state, and most times the listeners
\* are attached
MaxEvents == 4

MaxAttach == 2

\* trimRecords(records): splice(0, length - MAX_TRACKED_ENTRIES) when longer
trimRecords(records) ==
  IF Len(records) > MAX_TRACKED_ENTRIES
  THEN SubSeq(records, Len(records) - MAX_TRACKED_ENTRIES + 1, Len(records))
  ELSE records

\* recordEntry(entry), and the end of the console listener: nothing without a
\* store for the page, else push and trim.  pushed: every entry pushed to the
\* list since it was set; late: entries pushed after the close event
recordEntry(t, entry) ==
  IF ~t.has THEN t
  ELSE [t EXCEPT !.store = trimRecords(Append(@, entry)),
                 !.pushed = Append(@, entry),
                 !.late = IF t.closed THEN @ \cup {entry} ELSE @]

\* ensureRequestTracking(page) / ensureConsoleTracking(page): return when the
\* WeakMap has the page; else set an empty list, attach the event listeners
\* and the once('close') listener
ensureTracking(t) ==
  IF t.has THEN t
  ELSE [t EXCEPT !.has = TRUE, !.store = <<>>, !.pushed = <<>>,
                 !.attached = @ + 1, !.onClose = ~t.closed]

\* A page no tool has asked records of: kind is the WeakMap (requestRecords or
\* consoleRecords), entries are numbered in the order of their events
NoTrack ==
  [kind |-> "request", closed |-> FALSE, has |-> FALSE, onClose |-> FALSE,
   store |-> <<>>, pushed |-> <<>>, attached |-> 0, events |-> 0, fresh |-> 0,
   pending |-> {}, late |-> {}]

\* A tracked page that has recorded all but two of the entries it can hold
Tracked ==
  [NoTrack EXCEPT !.has = TRUE, !.onClose = TRUE, !.attached = 1,
                  !.store = [i \in 1..(MAX_TRACKED_ENTRIES - 2) |-> i],
                  !.pushed = [i \in 1..(MAX_TRACKED_ENTRIES - 2) |-> i],
                  !.events = MAX_TRACKED_ENTRIES - 2]

(***************************************************************************)
(* Navigation retries: startLogin and the restoreSession of                *)
(* src/automation/human-in-loop-login.ts side by side                      *)
(***************************************************************************)
\* What one navigation attempt meets: goto or the 2 s wait raises, title()
\* raises, or the title is read
NavResults ==
  {"gotoThrows", "waitThrows", "titleThrows", "titleFacebook", "titleLogIn",
   "titleOther"}

\* The attempt as navigateToFacebook / the loop of startLogin sees it
outcomeOf(result) ==
  IF result \in {"titleFacebook", "titleLogIn"} THEN "loaded"
  ELSE IF result = "titleOther" THEN "otherTitle"
  ELSE "throws"

\* One iteration of `while (!navigationSuccess && attempts < maxAttempts)` in
\* restoreSession, attempts already incremented: navigationSuccess = true once
\* goto and the 2 s wait return (the title is not read); after an exception
\* wait 3 s unless this was the last attempt
verifyStep(attempts, result) ==
  [verdict |-> IF result \notin {"gotoThrows", "waitThrows"} THEN "succeeded"
               ELSE IF attempts < maxAttempts THEN "again"
               ELSE "failed",
   waited |-> result \in {"gotoThrows", "waitThrows"} /\ attempts < maxAttempts]

\* A retry loop not started
NoLoop == [attempts |-> 0, waits |-> 0, verdict |-> "again"]

\* The loop after one more attempt
advance(loop, step) ==
  [attempts |-> loop.attempts + 1,
   waits |-> IF step.waited THEN loop.waits + 1 ELSE loop.waits,
   verdict |-> step.verdict]

NoNav == [fed |-> <<>>, start |-> NoLoop, restore |-> NoLoop]

(***************************************************************************)
(* State machine                                                           *)
(***************************************************************************)
\* last: op, name and flag are the call (flag: the enabled argument of
\* setEnabled, the enabled key of register's metadata); prev is, for setEnabled,
\* the flag of the setEnabled call on the same name made just before (if any)
\* and, for register, the enabled flag of the registration it replaced.

\* The argument objects dispatched calls are made with.
DispatchArgs ==
  {Obj(EmptyObj),
   Obj("url" :> Str("https://example.com")),
   Obj(("url" :> Str("https://example.com")) @@ ("toString" :> Str("zzz"))),
   NullArgs}

\* The metadata register is given in the dispatch specification (category and
\* tags are never read by dispatch).
DispatchMetas ==
  {[category |-> "absent", tags |-> {}, enabled |-> "absent"],
   [category |-> "absent", tags |-> {}, enabled |-> "false"]}

Idle ==
  [op |-> "none", name |-> "", flag |-> "", prev |-> "", id |-> 0, args |-> NullArgs,
   context |-> NoSession, thrown |-> FALSE, kind |-> "NONE", exec |-> NotCalled]

NoVal ==
  [done |-> FALSE, schema |-> "none", args |-> NullArgs,
   result |-> [threw |-> FALSE, valid |-> FALSE, errors |-> <<>>],
   exec |-> NotCalled]

Init ==
  /\ reg = [n \in AllNames |-> NoReg]
  /\ regPage = NoSession
  /\ mgr = [initialized |-> FALSE, page |-> "null", context |-> "null"]
  /\ last = Idle
  /\ toggledOff = {}
  /\ val = NoVal
  /\ login = NoLogin
  /\ frame = NoCall
  /\ world = NewWorld
  /\ loc = NoLoc
  /\ probe = NoProbe
  /\ locks = NoLocks
  /\ dialog = NoDialog
  /\ track = NoTrack
  /\ nav = NoNav

\* mcpRegistry.register(new XTool(...), metadata) by any caller
Register(class, meta, session) ==
  LET id == FreshId(reg, NameOf(class))
  IN  /\ reg' = register(reg, regPage, NameOf(class), NewTool(id, class, session), meta)
      /\ toggledOff' = toggledOff \ {NameOf(class)}
      /\ last' = [Idle EXCEPT !.op = "register", !.name = NameOf(class),
                              !.flag = meta.enabled, !.id = id,
                              !.prev = reg[NameOf(class)].enabled]
      /\ UNCHANGED <<regPage, mgr, val, loginVars, toolVars>>

\* mcpRegistry.setEnabled(name, enabled) / MCPToolsManager.setToolEnabled
SetEnabled(name, enabled) ==
  /\ reg' = setEnabled(reg, name, enabled)
  /\ toggledOff' = IF enabled THEN toggledOff \ {name}
                   ELSE IF reg[name].present THEN toggledOff \cup {name}
                   ELSE toggledOff
  /\ last' = [Idle EXCEPT !.op = "setEnabled", !.name = name,
                          !.flag = IF enabled THEN "true" ELSE "false",
                          !.prev = IF last.op = "setEnabled" /\ last.name = name
                                   THEN last.flag ELSE ""]
  /\ UNCHANGED <<regPage, mgr, val, loginVars, toolVars>>

\* MCPToolsManager.initialize(page, context)
Initialize(session) ==
  /\ reg' = setPageContext(registerAllTools(reg, regPage, session), session)
  /\ regPage' = session
  /\ mgr' = [initialized |-> TRUE, page |-> session.page, context |-> session.context]
  /\ toggledOff' = toggledOff \ {NameOf(Catalog[i]) : i \in 1..Len(Catalog)}
  /\ last' = [Idle EXCEPT !.op = "initialize"]
  /\ UNCHANGED <<val, loginVars, toolVars>>

\* MCPToolsManager.updatePageContext(page, context)
UpdatePageContext(session) ==
  /\ mgr' = [mgr EXCEPT !.page = session.page, !.context = session.context]
  /\ reg' = setPageContext(reg, session)
  /\ regPage' = session
  /\ last' = [Idle EXCEPT !.op = "updatePageContext"]
  /\ UNCHANGED <<toggledOff, val, loginVars, toolVars>>

\* MCPToolsManager.executeTool(name, args)
ExecuteTool(name, args, beh) ==
  LET out == executeTool(mgr, reg, name, args, beh)
  IN  /\ last' = [Idle EXCEPT !.op = "executeTool", !.name = name, !.args = args,
                              !.context = MgrContext(mgr), !.thrown = out.thrown,
                              !.kind = out.kind, !.exec = out.exec]
      /\ UNCHANGED <<reg, regPage, mgr, toggledOff, val, loginVars, toolVars>>

\* BaseMCPTool.execute(args, context) called on a tool taken from the registry
ToolExecute(name, args, context, beh) ==
  /\ get(reg, name) # NullTool
  /\ LET result == execute(get(reg, name), args, context, beh)
     IN  last' = [Idle EXCEPT !.op = "execute", !.name = name, !.args = args,
                              !.context = context, !.thrown = result.thrown,
                              !.kind = result.kind, !.exec = result]
  /\ UNCHANGED <<reg, regPage, mgr, toggledOff, val, loginVars, toolVars>>

\* The registry and the dispatcher
Next ==
  \/ \E c \in ToolClasses, meta \in DispatchMetas : Register(c, meta, NoSession)
  \/ \E n \in AllNames, b \in BOOLEAN : SetEnabled(n, b)
  \/ \E s \in Sessions : Initialize(s)
  \/ \E s \in Sessions : UpdatePageContext(s)
  \/ \E n \in AllNames, a \in DispatchArgs, beh \in HandlerBehaviours :
       ExecuteTool(n, a, beh)
  \/ \E n \in AllNames, a \in DispatchArgs, c \in CallerContexts,
        beh \in HandlerBehaviours : ToolExecute(n, a, c, beh)

Spec == Init /\ [][Next]_vars

\* The registry alone, with every metadata a caller may pass
NextRegistry ==
  \/ \E c \in ToolClasses, meta \in MetaChoices, s \in Sessions \cup {NoSession} :
       Register(c, meta, s)
  \/ \E n \in AllNames, b \in BOOLEAN : SetEnabled(n, b)
  \/ \E s \in Sessions : Initialize(s)
  \/ \E s \in Sessions : UpdatePageContext(s)

SpecRegistry == Init /\ [][NextRegistry]_vars

(***************************************************************************)
(* validateArguments on its own: every schema against every argument       *)
(* object over Keys and ArgValues                                          *)
(***************************************************************************)
ArgValues == {Str("load"), Str("zzz"), Num("5"), Bool("true"), Arr("[]")}

ArgObjects ==
  {NullArgs} \cup {Obj(f) : f \in UNION {[D -> ArgValues] : D \in SUBSET Keys}}

Validate(schema, args) ==
  /\ val' = [done |-> TRUE, schema |-> schema, args |-> args,
             result |-> validateArguments(SchemaOf(schema), args),
             exec |-> NotCalled]
  /\ UNCHANGED <<reg, regPage, mgr, last, toggledOff, loginVars, toolVars>>

\* One validateArguments call per behaviour
NextValidate ==
  /\ ~val.done
  /\ \E schema \in SchemaIds, args \in ArgObjects : Validate(schema, args)

SpecValidate == Init /\ [][NextValidate]_vars

(***************************************************************************)
(* HumanInLoopLogin: startLogin and restoreSession, one step per await     *)
(***************************************************************************)
Returned == frame.pc \in {"idle", "done"}

\* The call ends with the value or the exception ret
Return(f, ret) == [f EXCEPT !.pc = "done", !.ret = ret]

BrowserAnswers == {"ok", "throws"}

\* startLogin(profilePath) up to the first navigation attempt: launch the
\* persistent context, take its page into this.context / this.page
StartLogin(launched) ==
  /\ Returned
  /\ world.launches < MaxLaunches
  /\ LET f == [NoCall EXCEPT !.call = "startLogin", !.before = login]
     IN  IF launched = "throws"
         THEN /\ frame' = Return(f, "raised")
              /\ UNCHANGED <<login, world>>
         ELSE /\ world' = launch(world)
              /\ login' = [context |-> world.launches + 1, page |-> world.launches + 1]
              /\ frame' = [f EXCEPT !.pc = "nav", !.launched = world.launches + 1]
  /\ UNCHANGED <<regVars, toolVars>>

\* One navigation attempt of navigateToFacebook, for startLogin or
\* restoreSession
Navigate(outcome) ==
  /\ frame.pc = "nav"
  /\ LET step == navigateStep(frame.attempts + 1, outcome)
         f == [frame EXCEPT !.attempts = @ + 1,
                            !.waits = IF step.waited THEN @ + 1 ELSE @]
     IN  frame' =
           IF step.verdict = "again" THEN f
           ELSE IF step.verdict = "succeeded"
           THEN [f EXCEPT !.nav = "succeeded",
                          !.pc = IF frame.call = "startLogin" THEN "poll" ELSE "probe"]
           ELSE IF frame.call = "startLogin"
           THEN Return([f EXCEPT !.nav = "failed"], "false")
           ELSE [f EXCEPT !.nav = "failed", !.pc = "teardown"]
  /\ UNCHANGED <<login, world>>
  /\ UNCHANGED <<regVars, toolVars>>

\* One iteration of waitForManualLogin: probe, then wait checkInterval
Poll(dom) ==
  /\ frame.pc = "poll"
  /\ LET isLoggedIn == checkIfLoggedIn(login.page, dom)
         step == pollStep(frame.elapsed, isLoggedIn)
         f == [frame EXCEPT !.probes = @ + 1, !.seen = isLoggedIn,
                            !.misses = IF isLoggedIn THEN @ ELSE @ + 1,
                            !.dom = IF isLoggedIn THEN dom ELSE @,
                            !.elapsed = step.elapsed,
                            !.onlyLoginPages = @ /\ (isLoggedIn \/ dom.login)]
     IN  frame' =
           IF step.verdict = "true" THEN [f EXCEPT !.pc = "save"]
           ELSE IF step.verdict = "again" THEN f
           ELSE Return(f, "false")
  /\ UNCHANGED <<login, world>>
  /\ UNCHANGED <<regVars, toolVars>>

\* What saveSession meets: both files written; mkdir, context.cookies() or the
\* first writeFile raises; storageState() or the second writeFile raises
SaveOutcomes == {"saved", "failedBeforeCookies", "failedAfterCookies"}

\* saveSession(profilePath): errors are caught and logged
saveSession(w, context, outcome) ==
  IF context = 0 \/ outcome = "failedBeforeCookies" THEN w
  ELSE IF outcome = "failedAfterCookies" THEN [w EXCEPT !.cookies = TRUE]
  ELSE [w EXCEPT !.cookies = TRUE, !.state = TRUE]

\* saveSession without its try/catch
saveRaisesMutantNoCatch(outcome) == outcome # "saved"

\* saveSession: catch (error) { console.error(...) }, nothing leaves it
saveRaises(outcome) == FALSE

\* startLogin after waitForManualLogin returned true: saveSession, return true
\* (world.confirmed records that a call returned true)
Save(outcome) ==
  /\ frame.pc = "save"
  /\ world' = [saveSession(world, login.context, outcome)
                 EXCEPT !.confirmed = @ \/ ~saveRaises(outcome)]
  /\ frame' = Return([frame EXCEPT !.saves = @ + 1, !.saved = outcome],
                     IF saveRaises(outcome) THEN "raised" ELSE "true")
  /\ UNCHANGED login
  /\ UNCHANGED <<regVars, toolVars>>

\* restoreSession that takes a file fs.access failed on as existing
noSavedSessionMutantAccessUnchecked(w) == FALSE

\* restoreSession: !cookiesExist && !stateExist
noSavedSession(w) == ~w.cookies /\ ~w.state

\* What the launch and the application of state.json can do in
\* restoreSession
RestoreAnswers == {"ok", "launchThrows", "applyThrows"}

\* restoreSession(profilePath) up to the first navigation attempt: return false
\* when neither file exists; else launch, add the cookies of state.json when it
\* exists (JSON.parse or addCookies may raise), take the page
RestoreSession(answer) ==
  /\ Returned
  /\ LET f == [NoCall EXCEPT !.call = "restoreSession", !.before = login]
     IN  IF noSavedSession(world)
         THEN /\ answer = "ok"
              /\ frame' = Return(f, "false")
              /\ UNCHANGED <<login, world>>
         ELSE /\ world.launches < MaxLaunches
              /\ answer = "applyThrows" => world.state
              /\ IF answer = "launchThrows"
                 THEN /\ frame' = [f EXCEPT !.pc = "catch"]
                      /\ UNCHANGED <<login, world>>
                 ELSE /\ world' = launch(world)
                      /\ login' = [context |-> world.launches + 1,
                                   page |-> IF answer = "ok" THEN world.launches + 1
                                            ELSE login.page]
                      /\ frame' = [f EXCEPT !.launched = world.launches + 1,
                                            !.pc = IF answer = "ok" THEN "nav" ELSE "catch"]
  /\ UNCHANGED <<regVars, toolVars>>

\* restoreSession after navigation: the one checkIfLoggedIn
Probe(dom) ==
  /\ frame.pc = "probe"
  /\ LET isLoggedIn == checkIfLoggedIn(login.page, dom)
         f == [frame EXCEPT !.probes = @ + 1, !.seen = isLoggedIn, !.dom = dom]
     IN  IF isLoggedIn
         THEN /\ frame' = Return(f, "true")
              /\ world' = [world EXCEPT !.confirmed = TRUE]
         ELSE /\ frame' = [f EXCEPT !.pc = "teardown"]
              /\ UNCHANGED world
  /\ UNCHANGED login
  /\ UNCHANGED <<regVars, toolVars>>

\* restoreSession, inside try: await this.context?.close(); both fields = null;
\* return false.  A close that raises enters the catch block.
TearDown(closed) ==
  /\ frame.pc = "teardown"
  /\ IF closed = "ok"
     THEN /\ world' = closeContext(world, login.context)
          /\ login' = NoLogin
          /\ frame' = Return(frame, "false")
     ELSE /\ frame' = [frame EXCEPT !.pc = "catch"]
          /\ UNCHANGED <<login, world>>
  /\ UNCHANGED <<regVars, toolVars>>

\* restoreSession, catch block: await this.context?.close(); both fields =
\* null; return false.  A close that raises here leaves restoreSession by the
\* exception.
Catch(closed) ==
  /\ frame.pc = "catch"
  /\ closed = "throws" => login.context # 0
  /\ IF closed = "ok"
     THEN /\ world' = closeContext(world, login.context)
          /\ login' = NoLogin
          /\ frame' = Return(frame, "false")
     ELSE /\ frame' = Return(frame, "raised")
          /\ UNCHANGED <<login, world>>
  /\ UNCHANGED <<regVars, toolVars>>

\* close(): page.screenshot when this.page is set, then context.close() when
\* this.context is set; neither field is reset.  A page carries the number of
\* its context and is closed with it: a screenshot of a closed page raises;
\* closing a closed context returns.  shot and closed are what the screenshot
\* of an open page and the close of an open context do.
Close(shot, closed) ==
  /\ Returned
  /\ LET f == [NoCall EXCEPT !.call = "close", !.before = login]
         pageGone == login.page # 0 /\ login.page \notin world.open
         contextGone == login.context # 0 /\ login.context \notin world.open
         shoots == login.page # 0 /\ ~pageGone
         closes == login.context # 0 /\ ~contextGone
     IN  /\ ~shoots => shot = "ok"
         /\ (~closes \/ pageGone \/ shot = "throws") => closed = "ok"
         /\ IF pageGone \/ shot = "throws"
            THEN /\ frame' = Return([f EXCEPT !.touched = pageGone, !.shot = "throws"],
                                    "raised")
                 /\ UNCHANGED world
            ELSE IF closes /\ closed = "throws"
            THEN /\ frame' = Return([f EXCEPT !.shot = IF shoots THEN "ok" ELSE "none"],
                                    "raised")
                 /\ UNCHANGED world
            ELSE /\ frame' = Return([f EXCEPT !.touched = contextGone,
                                              !.shot = IF shoots THEN "ok" ELSE "none",
                                              !.closed = IF closes THEN login.context ELSE 0],
                                    "returned")
                 /\ world' = IF closes THEN closeContext(world, login.context) ELSE world
  /\ UNCHANGED login
  /\ UNCHANGED <<regVars, toolVars>>

\* getPage() / getContext()
getPage == login.page

getContext == login.context

InitLogin ==
  /\ reg = [n \in AllNames |-> NoReg]
  /\ regPage = NoSession
  /\ mgr = [initialized |-> FALSE, page |-> "null", context |-> "null"]
  /\ last = Idle
  /\ toggledOff = {}
  /\ val = NoVal
  /\ login = NoLogin
  /\ frame = NoCall
  /\ world \in Worlds
  /\ loc = NoLoc
  /\ probe = NoProbe
  /\ locks = NoLocks
  /\ dialog = NoDialog
  /\ track = NoTrack
  /\ nav = NoNav

NextLogin ==
  \/ \E a \in BrowserAnswers : StartLogin(a)
  \/ \E o \in NavOutcomes : Navigate(o)
  \/ \E d \in Doms : Poll(d)
  \/ \E o \in SaveOutcomes : Save(o)
  \/ \E a \in RestoreAnswers : RestoreSession(a)
  \/ \E d \in Doms : Probe(d)
  \/ \E a \in BrowserAnswers : TearDown(a)
  \/ \E a \in BrowserAnswers : Catch(a)
  \/ \E a, b \in BrowserAnswers : Close(a, b)

SpecLogin == InitLogin /\ [][NextLogin]_vars


(***************************************************************************)
(* The field locator and browser_fill_form on their own: one call on any   *)
(* page                                                                    *)
(***************************************************************************)
\* this.resolveFieldLocator(page, identifiers, timeout, fallbackLocators)
ResolveFieldLocator(page, identifiers, n) ==
  /\ loc' = [NoLoc EXCEPT !.done = TRUE, !.call = "resolveFieldLocator",
                          !.page = page, !.identifiers = identifiers,
                          !.fallbackLocators = fallbacksOf(n),
                          !.resolved = resolveFieldLocator(page, identifiers,
                                                           fallbacksOf(n))]
  /\ UNCHANGED <<regVars, loginVars, probe, locks, dialog, track, nav>>

\* browser_fill_form through BaseMCPTool.execute with valid arguments and a
\* live page: _execute returns a text result or raises
FillForm(page, fields, submit) ==
  LET r == fillForm(page, fields, submit)
      beh == IF r.threw THEN "throwError" ELSE "ok"
  IN  /\ loc' = [NoLoc EXCEPT !.done = TRUE, !.call = "browser_fill_form",
                              !.page = page, !.fields = fields, !.submit = submit,
                              !.results = r.results, !.exhausted = r.exhausted,
                              !.result = runHandler(beh, "page", "context")]
      /\ UNCHANGED <<regVars, loginVars, probe, locks, dialog, track, nav>>

NextLocator ==
  /\ ~loc.done
  /\ \/ \E page \in Pages, identifiers \in SeqsUpTo(IdentifierValues, MaxIdentifiers),
          n \in 0..MaxFallbacks :
          /\ n <= Len(FieldTypes)
          /\ ResolveFieldLocator(page, identifiers, n)
     \/ \E page \in FormPages, fields \in SeqsUpTo(Fields, MaxFields),
          submit \in BOOLEAN :
          /\ fields # <<>>
          /\ FillForm(page, fields, submit)

SpecLocator == Init /\ [][NextLocator]_vars

(***************************************************************************)
(* The lock cleanup of startLogin on its own                               *)
(***************************************************************************)
\* A process using the profile dies and leaves lock files behind
Crash(left) ==
  /\ locks.pc \in {"idle", "launching"}
  /\ left # {}
  /\ locks' = [locks EXCEPT !.files = @ \cup left, !.pc = "idle"]
  /\ UNCHANGED <<regVars, loginVars, loc, probe, dialog, track, nav>>

\* startLogin down to the launch: the cleanup block, then
\* chromium.launchPersistentContext is reached unless the block raised
CleanLocks(denied) ==
  /\ locks.pc = "idle"
  /\ locks.starts < MaxStarts
  /\ denied \subseteq locks.files
  /\ LET r == unlinkLocks(locks.files, denied)
     IN  locks' = [files |-> r.files, before |-> locks.files, denied |-> denied,
                   unlinked |-> r.unlinked, starts |-> locks.starts + 1,
                   pc |-> IF r.raised THEN "raised" ELSE "launching"]
  /\ UNCHANGED <<regVars, loginVars, loc, probe, dialog, track, nav>>

NextLocks ==
  \/ \E left \in SUBSET Locks : Crash(left)
  \/ \E denied \in SUBSET Locks : CleanLocks(denied)

SpecLocks == Init /\ [][NextLocks]_vars

(***************************************************************************)
(* The two navigation loops fed the same outcomes                          *)
(***************************************************************************)
\* One more navigation outcome, met by each loop that is still running
Attempt(result) ==
  /\ nav.start.verdict = "again" \/ nav.restore.verdict = "again"
  /\ nav' = [fed |-> Append(nav.fed, result),
             start |-> IF nav.start.verdict = "again"
                       THEN advance(nav.start,
                                    navigateStep(nav.start.attempts + 1, outcomeOf(result)))
                       ELSE nav.start,
             restore |-> IF nav.restore.verdict = "again"
                         THEN advance(nav.restore,
                                      verifyStep(nav.restore.attempts + 1, result))
                         ELSE nav.restore]
  /\ UNCHANGED <<regVars, loginVars, loc, probe, locks, dialog, track>>

NextNavigation == \E result \in NavResults : Attempt(result)

SpecNavigation == Init /\ [][NextNavigation]_vars

(***************************************************************************)
(* BaseMCPTool.execute on arguments inside and outside the declared ranges *)
(* and patterns                                                            *)
(***************************************************************************)
\* Numbers below, at and above the declared bounds; filenames with and
\* without a path separator, and the empty one
RangeValues == {Num("-1"), Num("0"), Num("5"), Num("300001")}

FilenameValues == {Str("shot"), Str("final-state.v2"), Str("../x"), Str("a/b"), Str("")}

\* Argument objects of the right types for browser_navigate and
\* browser_screenshot
ConstrainedArgs(schema) ==
  IF schema = "navigate"
  THEN {Obj(f) : f \in UNION {[D -> RangeValues \cup {Str("load")}] :
                                D \in {{"url"}, {"url", "timeout"}}}}
  ELSE {Obj(f) : f \in UNION {[D -> RangeValues \cup FilenameValues] :
                                D \in SUBSET {"filename", "quality"}}}

\* tool.execute(args, context) on a tool that holds a page and a context
Execute(schema, args, beh) ==
  /\ \A k \in DOMAIN args.obj : ~typeCheck(PropOf(SchemaOf(schema), k), args.obj[k])
  /\ val' = [done |-> TRUE, schema |-> schema, args |-> args,
             result |-> validateArguments(SchemaOf(schema), args),
             exec |-> execute([id |-> 1, schema |-> schema, page |-> "p1",
                               context |-> "c1"],
                              args, NoSession, beh)]
  /\ UNCHANGED <<reg, regPage, mgr, last, toggledOff, loginVars, toolVars>>

NextConstraints ==
  /\ ~val.done
  /\ \E schema \in {"navigate", "screenshot"}, beh \in HandlerBehaviours :
       \E args \in ConstrainedArgs(schema) : Execute(schema, args, beh)

SpecConstraints == Init /\ [][NextConstraints]_vars

(***************************************************************************)
(* browser_handle_dialog and the dialogs of the page                       *)
(***************************************************************************)
\* HandleDialogTool._execute: page.once('dialog', listener)
HandleDialog(accept, promptText) ==
  /\ dialog.registered < MaxRegistrations
  /\ dialog' = [dialog EXCEPT
                  !.registered = @ + 1,
                  !.listeners = Append(@, [id |-> dialog.registered + 1,
                                           accept |-> accept,
                                           promptText |-> promptText])]
  /\ UNCHANGED <<regVars, loginVars, loc, probe, locks, track, nav>>

\* The page shows a dialog: the 'dialog' event
ShowDialog(type) ==
  /\ Len(dialog.dialogs) < MaxDialogs
  /\ dialog' = [dialog EXCEPT
                  !.listeners = afterEmit(@),
                  !.dialogs = Append(@, [type |-> type,
                                         calls |-> callsOf(dialog.listeners, type)])]
  /\ UNCHANGED <<regVars, loginVars, loc, probe, locks, track, nav>>

NextDialog ==
  \/ \E accept \in BOOLEAN, promptText \in PromptTexts : HandleDialog(accept, promptText)
  \/ \E type \in DialogTypes : ShowDialog(type)

SpecDialog == Init /\ [][NextDialog]_vars

(***************************************************************************)
(* Request and console tracking of one page                                *)
(***************************************************************************)
\* browser_network_requests / browser_console_messages: _execute calls
\* ensure...Tracking(page) on the page of the call
EnsureTracking ==
  /\ ~track.has
  /\ track.attached < MaxAttach
  /\ track' = ensureTracking(track)
  /\ UNCHANGED <<regVars, loginVars, loc, probe, locks, dialog, nav>>

\* The page emits requestfailed / requestfinished / console: a listener that
\* awaits nothing records at once (requestfailed, console without args), one
\* that awaits (request.response(), handle.jsonValue()) records when resumed
Emit(awaits) ==
  /\ ~track.closed
  /\ track.attached > 0
  /\ track.fresh < MaxEvents
  /\ LET entry == track.events + 1
         t == [track EXCEPT !.events = entry, !.fresh = @ + 1]
     IN  track' = IF awaits THEN [t EXCEPT !.pending = @ \cup {entry}]
                  ELSE recordEntry(t, entry)
  /\ UNCHANGED <<regVars, loginVars, loc, probe, locks, dialog, nav>>

\* A listener that awaited is resumed (its await returned or raised)
Resume(entry) ==
  /\ entry \in track.pending
  /\ track' = recordEntry([track EXCEPT !.pending = @ \ {entry}], entry)
  /\ UNCHANGED <<regVars, loginVars, loc, probe, locks, dialog, nav>>

\* The page closes: the once('close') listener deletes the page from the WeakMap
ClosePage ==
  /\ ~track.closed
  /\ track' = IF track.onClose
              THEN [track EXCEPT !.closed = TRUE, !.has = FALSE, !.store = <<>>,
                                 !.onClose = FALSE]
              ELSE [track EXCEPT !.closed = TRUE]
  /\ UNCHANGED <<regVars, loginVars, loc, probe, locks, dialog, nav>>

InitTracking ==
  /\ reg = [n \in AllNames |-> NoReg]
  /\ regPage = NoSession
  /\ mgr = [initialized |-> FALSE, page |-> "null", context |-> "null"]
  /\ last = Idle
  /\ toggledOff = {}
  /\ val = NoVal
  /\ login = NoLogin
  /\ frame = NoCall
  /\ world = NewWorld
  /\ loc = NoLoc
  /\ probe = NoProbe
  /\ locks = NoLocks
  /\ dialog = NoDialog
  /\ nav = NoNav
  /\ track \in {[t EXCEPT !.kind = k] : t \in {NoTrack, Tracked}, k \in {"request", "console"}}

NextTracking ==
  \/ EnsureTracking
  \/ \E awaits \in BOOLEAN : Emit(awaits)
  \/ \E entry \in track.pending : Resume(entry)
  \/ ClosePage

SpecTracking == InitTracking /\ [][NextTracking]_vars

(***************************************************************************)
(* The registry and the dispatcher with two page/context pairs             *)
(***************************************************************************)
\* The pairs a caller may hand to initialize, updatePageContext or a tool
\* constructor
PagePairs == {[page |-> "p1", context |-> "c1"], [page |-> "p2", context |-> "c2"]}

NextPages ==
  \/ \E c \in ToolClasses, meta \in DispatchMetas, s \in PagePairs \cup {NoSession} :
       Register(c, meta, s)
  \/ \E s \in PagePairs : Initialize(s)
  \/ \E s \in PagePairs : UpdatePageContext(s)
  \/ \E n \in AllNames, a \in DispatchArgs, beh \in HandlerBehaviours :
       ExecuteTool(n, a, beh)
  \/ \E n \in AllNames, a \in DispatchArgs, c \in CallerContexts,
        beh \in HandlerBehaviours : ToolExecute(n, a, c, beh)

SpecPages == Init /\ [][NextPages]_vars

(***************************************************************************)
(* Properties                                                              *)
(***************************************************************************)
IsDispatch == last.op \in {"executeTool", "execute"}

HandlerRan == last.exec.handler # "notRun"

ListedNames(r) == {d.name : d \in listDefinitions(r)}

\* The step is setEnabled(n, true)
ReEnables(n) == last'.op = "setEnabled" /\ last'.name = n /\ last'.flag = "true"

\* C1 (as claimed): MCPToolsManager.executeTool and BaseMCPTool.execute never
\* raise: every dispatched call, whatever the name, the arguments, the state of
\* the manager and the behaviour of the handler, ends by returning a value.
C1_DispatchNeverThrows == IsDispatch => ~last.thrown

\* C2: when the handler raises, BaseMCPTool.execute returns (does not raise) an
\* error result, isError = true, whose text is "Tool execution failed: "
\* followed by the message of the Error raised ("Unknown error" for a value
\* that is not an Error).
C2_HandlerThrowIsErrorResult ==
  (last.exec.called /\ last.exec.handler \in {"throwError", "throwValue"}) =>
    /\ ~last.exec.thrown
    /\ last.exec.isError
    /\ last.exec.text = "Tool execution failed: "
    /\ last.exec.detail =
         IF last.exec.handler = "throwError" THEN HandlerMessage ELSE "Unknown error"

C2_Witness ==
  /\ last.op = "execute"
  /\ last.exec.handler = "throwError"
  /\ last.exec.isError
  /\ ~last.thrown

\* C3 (as claimed): once setEnabled(name, false) was applied to a registered
\* tool, every step other than setEnabled(name, true) leaves the tool out of
\* listDefinitions(), and executing the name on an initialized manager ends in
\* tool-not-found with the handler not run.
C3_DisabledUntilReEnabled ==
  [][\A n \in toggledOff :
       ~ReEnables(n) =>
         /\ n \notin ListedNames(reg')
         /\ (last'.op = "executeTool" /\ last'.name = n /\ mgr.initialized) =>
              (last'.kind = "TOOL_NOT_FOUND" /\ last'.exec.handler = "notRun")]_vars

\* C3 (amended): after setEnabled(name, false) on a registered tool, for as long
\* as neither setEnabled(name, true) nor a register of that name (by register or
\* by MCPToolsManager.initialize) follows, listDefinitions() omits the tool and
\* executeTool(name) raises without running the handler: tool-not-found on an
\* initialized manager, not-initialized before initialize().
C3_DisabledIsInvisible ==
  \A n \in toggledOff :
    /\ n \notin ListedNames(reg)
    /\ (last.op = "executeTool" /\ last.name = n) =>
         /\ last.thrown
         /\ ~HandlerRan
         /\ last.kind = IF mgr.initialized THEN "TOOL_NOT_FOUND" ELSE "NOT_INITIALIZED"

C3_Witness ==
  \E n \in toggledOff :
    /\ mgr.initialized
    /\ last.op = "executeTool"
    /\ last.name = n
    /\ last.kind = "TOOL_NOT_FOUND"

\* What the validation contract counts as a violation of schema by obj: a
\* required name obj lacks, a name the schema does not declare (unless
\* additionalProperties), a declared field of the wrong type, a correctly typed
\* field whose value is not in its enum.
TypeMatches(type, value) ==
  CASE type = "string" -> value.t = "string"
    [] type = "number" -> value.t = "number"
    [] type = "boolean" -> value.t = "boolean"
    [] type = "array" -> value.t = "array"
    [] OTHER -> TRUE

ContractViolations(schema, obj) ==
  LET declared == DOMAIN schema.properties
      required == {schema.required[i] : i \in 1..Len(schema.required)}
  IN  {Err("missing", k) : k \in required \ DOMAIN obj}
      \cup {Err("unexpected", k) :
              k \in IF schema.additionalProperties THEN {} ELSE DOMAIN obj \ declared}
      \cup {Err("type", k) :
              k \in {d \in DOMAIN obj \cap declared :
                       ~TypeMatches(schema.properties[d].type, obj[d])}}
      \cup {Err("enum", k) :
              k \in {d \in DOMAIN obj \cap declared :
                       /\ TypeMatches(schema.properties[d].type, obj[d])
                       /\ schema.properties[d].hasEnum
                       /\ obj[d] \notin schema.properties[d].enum}}

Reported(errors) == {errors[i] : i \in 1..Len(errors)}

ValidatedObject == val.done /\ ~val.args.isNull

\* C4 (as claimed): validation is exhaustive: every constraint the argument
\* object violates (each missing required field, each unexpected field, each
\* wrong-typed field, each non-enum value) is listed in the one validation
\* error returned.
C4_EveryViolationReported ==
  ValidatedObject =>
    ContractViolations(SchemaOf(val.schema), val.args.obj) \subseteq Reported(val.result.errors)

\* C5 (as claimed): validation accepts an argument object exactly when it
\* violates nothing: all required fields present, declared fields of their
\* declared type and within their enum, no undeclared field unless the schema
\* sets additionalProperties.
C5_AcceptsExactlyTheValid ==
  ValidatedObject =>
    (val.result.valid <=> ContractViolations(SchemaOf(val.schema), val.args.obj) = {})

\* C6: the handler runs only after lookup, validation and page/context
\* resolution all passed: in every dispatched call where the handler ran, the
\* manager was initialized (executeTool), the name resolved to an enabled
\* registered tool, validateArguments accepted the arguments, and a page and a
\* context were available and are the ones the handler was given.
C6_HandlerOnlyAfterChecks ==
  (IsDispatch /\ HandlerRan) =>
    LET tool == get(reg, last.name)
    IN  /\ last.op = "executeTool" => mgr.initialized
        /\ tool # NullTool
        /\ validateArguments(SchemaOf(tool.schema), last.args).valid
        /\ last.context.page # "null" \/ tool.page # "null"
        /\ last.context.context # "null" \/ tool.context # "null"
        /\ last.exec.page # "null" /\ last.exec.context # "null"

\* A call on a valid, enabled tool that stopped at the last check before the
\* handler: no page/context.
C6_Witness ==
  /\ last.op = "execute"
  /\ last.kind = "NO_ACTIVE_SESSION"
  /\ ~HandlerRan
  /\ validateArguments(SchemaOf(get(reg, last.name).schema), last.args).valid

\* The outcome each step order predicts for the call recorded in last.
HandlerKinds == {"OK", "HANDLER_ERROR", "EXECUTION_ERROR"}

NoPage(tool, context) ==
  \/ context.page = "null" /\ tool.page = "null"
  \/ context.context = "null" /\ tool.context = "null"

\* C7 (as claimed): lookup, then validation, then page/context, then handler,
\* the earliest failing step deciding the outcome of executeTool; an unknown or
\* disabled name yields tool-not-found whatever else holds.
C7_LookupDecidesFirst ==
  last.op = "executeTool" =>
    LET tool == get(reg, last.name)
    IN  IF tool = NullTool THEN last.kind = "TOOL_NOT_FOUND"
        ELSE IF ~validateArguments(SchemaOf(tool.schema), last.args).valid
             THEN last.kind = "VALIDATION_ERROR"
        ELSE IF NoPage(tool, last.context) THEN last.kind = "NO_ACTIVE_SESSION"
        ELSE last.kind \in HandlerKinds

\* C7 (amended): executeTool first rejects every call on a manager that was not
\* initialized (not-initialized, whatever the name); on an initialized manager,
\* and in BaseMCPTool.execute, the steps are checked in the order lookup,
\* validation, page/context, handler and the earliest failing step decides the
\* outcome: tool-not-found for an unknown or disabled name whatever the
\* arguments, the validation failure (the validation error, or the TypeError
\* that validating null arguments raises) for invalid arguments even when no
\* page/context is available, no-active-session only for valid arguments.
C7_StepOrder ==
  IsDispatch =>
    LET tool == get(reg, last.name)
        validation == validateArguments(SchemaOf(tool.schema), last.args)
    IN  IF last.op = "executeTool" /\ ~mgr.initialized THEN last.kind = "NOT_INITIALIZED"
        ELSE IF tool = NullTool THEN last.kind = "TOOL_NOT_FOUND"
        ELSE IF validation.threw THEN last.kind = "TYPE_ERROR"
        ELSE IF ~validation.valid THEN last.kind = "VALIDATION_ERROR"
        ELSE IF NoPage(tool, last.context) THEN last.kind = "NO_ACTIVE_SESSION"
        ELSE last.kind \in HandlerKinds

\* Invalid arguments and no page/context at once: the validation error wins.
C7_Witness ==
  /\ last.op = "execute"
  /\ NoPage(get(reg, last.name), last.context)
  /\ ~last.args.isNull
  /\ last.kind = "VALIDATION_ERROR"

Categories == {"navigation", "browser", "undefined"}

Tags == {"destructive", "other"}

Exposed(n) == reg[n].present /\ reg[n].enabled = "true"

EnabledTools == {ToolOf(reg[n]) : n \in {m \in AllNames : Exposed(m)}}

\* C8: in every registry state each query exposes a tool exactly when it is
\* registered and enabled: get(name) is that tool when registered and enabled
\* and null otherwise, has(name) holds exactly when get(name) is not null, and
\* listDefinitions(), getByCategory() and getByTag() return enabled tools only.
C8_QueriesExposeEnabledOnly ==
  /\ \A n \in AllNames :
       /\ get(reg, n) = IF Exposed(n) THEN ToolOf(reg[n]) ELSE NullTool
       /\ Exposed(n) => ToolOf(reg[n]) # NullTool
       /\ has(reg, n) <=> get(reg, n) # NullTool
  /\ ListedNames(reg) = {n \in AllNames : Exposed(n)}
  /\ \A c \in Categories : getByCategory(reg, c) \subseteq EnabledTools
  /\ \A t \in Tags : getByTag(reg, t) \subseteq EnabledTools

\* A disabled tool that carries a category and a tag, beside an enabled one.
C8_Witness ==
  \E n, m \in ToolNames :
    /\ reg[n].present /\ reg[n].enabled = "false"
    /\ reg[n].category = "browser" /\ "destructive" \in reg[n].tags
    /\ Exposed(m)
    /\ getByCategory(reg, "browser") = {}

\* The step is a setEnabled call
SetEnabledStep == last'.op = "setEnabled"

\* C9: setEnabled toggles without removing. A setEnabled step changes nothing
\* but the enabled flag of the named registration: getStats().total and every
\* other registration are unchanged, and an unregistered name is a no-op;
\* setEnabled(name, true) right after setEnabled(name, false) makes get(name)
\* the same tool again, with the same category and tags.
C9_SetEnabledTogglesOnly ==
  [][SetEnabledStep =>
       LET n == last'.name
       IN  /\ getStats(reg').total = getStats(reg).total
           /\ \A m \in AllNames \ {n} : reg'[m] = reg[m]
           /\ ~reg[n].present => reg' = reg
           /\ reg[n].present => reg'[n] = [reg[n] EXCEPT !.enabled = last'.flag]
           /\ (last'.prev = "false" /\ last'.flag = "true" /\ reg[n].present) =>
                /\ get(reg', n) = ToolOf(reg[n])
                /\ get(reg', n) # NullTool
                /\ reg'[n].category = reg[n].category
                /\ reg'[n].tags = reg[n].tags]_vars

\* Re-enabled after having been disabled by setEnabled, category and tag kept.
C9_Witness ==
  /\ last.op = "setEnabled"
  /\ last.flag = "true"
  /\ last.prev = "false"
  /\ get(reg, last.name) # NullTool
  /\ reg[last.name].category = "browser"
  /\ "destructive" \in reg[last.name].tags

\* The step is a register call
RegisterStep == last'.op = "register"

\* C10: register inserts or overwrites by name, enabled by default: after a
\* register whose metadata does not set enabled, get(name) is the tool just
\* registered; over an existing name the new tool replaces the old one and
\* getStats().total is unchanged, over a new name total grows by one; no other
\* name's registration changes.
C10_RegisterOverwritesEnabled ==
  [][RegisterStep =>
       LET n == last'.name
       IN  /\ reg'[n].present /\ reg'[n].id = last'.id
           /\ last'.flag = "absent" =>
                (get(reg', n) # NullTool /\ get(reg', n).id = last'.id)
           /\ reg[n].present =>
                (reg'[n].id # reg[n].id /\ getStats(reg').total = getStats(reg).total)
           /\ ~reg[n].present => getStats(reg').total = getStats(reg).total + 1
           /\ \A m \in AllNames \ {n} : reg'[m] = reg[m]]_vars

\* A second tool registered, without an enabled flag, over a disabled first one.
C10_Witness ==
  /\ last.op = "register"
  /\ last.flag = "absent"
  /\ last.prev = "false"
  /\ last.id = 2
  /\ get(reg, last.name) # NullTool
  /\ get(reg, last.name).id = 2

\* The operations C11 names beside setEnabled: a dispatched call, a
\* setPageContext/updatePageContext, an initialize
OtherOps == {"executeTool", "execute", "updatePageContext", "initialize"}

\* C11 (as claimed): once a tool is registered, only an explicit setEnabled for
\* its name changes its enabled flag: no dispatched call, no
\* setPageContext/updatePageContext and no later MCPToolsManager.initialize on
\* the shared registry turns a disabled tool back on.
C11_OnlySetEnabledReEnables ==
  [][\A n \in AllNames :
       (reg[n].present /\ ~Truthy(reg[n].enabled) /\ last'.op \in OtherOps) =>
         ~Truthy(reg'[n].enabled)]_vars

(***************************************************************************)
(* checkIfLoggedIn on its own: every answer of page.$ to every selector     *)
(***************************************************************************)
CheckIfLoggedIn(page, answers) ==
  /\ probe' = [done |-> TRUE, page |-> page, answers |-> answers,
               result |-> checkIfLoggedInQueries(page, answers)]
  /\ UNCHANGED <<regVars, loginVars, loc, locks, dialog, track, nav>>

\* One checkIfLoggedIn call per behaviour
NextProbe ==
  /\ ~probe.done
  /\ \E page \in {0, 1}, answers \in [Selectors -> QueryAnswers] :
       /\ page = 0 => answers = NoProbe.answers
       /\ CheckIfLoggedIn(page, answers)

SpecProbe == Init /\ [][NextProbe]_vars

(***************************************************************************)
(* Properties of the session manager                                       *)
(***************************************************************************)
InStartLogin == frame.call = "startLogin"

InRestore == frame.call = "restoreSession"

\* C12: startLogin makes at most maxAttempts = 3 navigation attempts; when all
\* three fail it returns false at once: fewer 3 s waits than failed attempts
\* (none after the third), no login-state probe, no saveSession.
C12_ThreeFailuresReturnFalse ==
  InStartLogin =>
    /\ frame.attempts <= maxAttempts
    /\ frame.nav = "failed" =>
         /\ frame.attempts = maxAttempts
         /\ frame.pc = "done" /\ frame.ret = "false"
         /\ frame.waits < frame.attempts
         /\ frame.probes = 0
         /\ frame.saves = 0

\* Three attempts that raised: two waits, then false.
C12_Witness ==
  /\ InStartLogin
  /\ frame.nav = "failed"
  /\ frame.attempts = 3
  /\ frame.waits = 2
  /\ frame.ret = "false"

\* C13: startLogin never gives up on navigation after fewer than 3 failed
\* attempts; a navigation that succeeds (on the third attempt as on any other)
\* takes startLogin into login polling, and no navigation attempt follows the
\* successful one.
C13_NavigationUsesItsBudget ==
  /\ [](InStartLogin =>
          /\ frame.nav = "failed" => frame.attempts = maxAttempts
          /\ frame.pc = "nav" => frame.attempts < maxAttempts
          /\ frame.nav = "succeeded" =>
               /\ frame.pc \in {"poll", "save", "done"}
               /\ frame.pc = "done" => frame.probes >= 1)
  /\ [][(InStartLogin /\ frame.nav = "succeeded" /\ ~Returned) =>
          (frame'.attempts = frame.attempts /\ frame'.pc # "nav")]_vars

\* Two failed attempts, the third succeeded: polling.
C13_Witness ==
  /\ InStartLogin
  /\ frame.attempts = 3
  /\ frame.waits = 2
  /\ frame.nav = "succeeded"
  /\ frame.pc = "poll"
  /\ frame.probes = 1

\* The probes waitForManualLogin can make: ceiling / interval
MaxProbes == maxWaitTime \div checkInterval

\* C14: after a successful navigation the polling loop of startLogin probes
\* every checkInterval from elapsed = 0; it returns true at the first probe
\* that observes the logged-in state and probes no more; it returns false when
\* none of the maxWaitTime / checkInterval = 90 probes made before the ceiling
\* observed it; it never makes more probes than that, and after a timeout
\* startLogin returns false without navigating or polling again.
C14_PollingStopsAtLoginOrCeiling ==
  /\ [](InStartLogin /\ frame.nav = "succeeded" =>
          /\ frame.probes <= MaxProbes
          /\ frame.elapsed = frame.misses * checkInterval
          /\ frame.pc = "poll" =>
               (~frame.seen /\ frame.misses = frame.probes /\ frame.elapsed < maxWaitTime)
          /\ (frame.pc = "save" \/ frame.ret = "true") =>
               (frame.seen /\ frame.misses = frame.probes - 1 /\ frame.elapsed < maxWaitTime)
          /\ frame.ret = "false" =>
               (~frame.seen /\ frame.misses = MaxProbes /\ frame.probes = MaxProbes
                  /\ frame.elapsed = maxWaitTime /\ frame.saves = 0))
  /\ [][(InStartLogin /\ ~Returned /\ frame.seen) => frame'.probes = frame.probes]_vars
  /\ [][(InStartLogin /\ ~Returned /\ frame.pc = "poll") =>
          (frame'.attempts = frame.attempts /\ frame'.probes = frame.probes + 1
             /\ frame'.pc \in {"poll", "save", "done"})]_vars

\* The ceiling elapsed: 90 probes, none logged in, false.
C14_Witness ==
  /\ InStartLogin
  /\ frame.nav = "succeeded"
  /\ frame.ret = "false"
  /\ frame.probes = 90
  /\ frame.elapsed = 180000

\* The scenario of C15: every probe answered false saw the login page, three
\* of them, and then a probe saw the logged-in state
C15_Scenario ==
  /\ InStartLogin
  /\ frame.seen
  /\ frame.onlyLoginPages
  /\ frame.misses = 3

\* C15 (as claimed): with a probe that reports the login page for the first 3
\* ticks and logged-in afterwards, startLogin returns true on its 3rd poll,
\* with about 6 s of polling time elapsed.
C15_ThirdPollAtSixSeconds ==
  C15_Scenario => (frame.probes = 3 /\ frame.elapsed = 3 * checkInterval)

\* C15 (amended): with a probe that reports the login page 3 times and
\* logged-in afterwards, startLogin returns true on its 4th poll, with 6 s of
\* polling time elapsed: the k-th poll is made at (k - 1) * 2 s, the 3rd at 4 s.
C15_FourthPollAtSixSeconds ==
  /\ C15_Scenario =>
       /\ frame.probes = 4 /\ frame.elapsed = 3 * checkInterval
       /\ frame.pc \in {"save", "done"}
       /\ frame.pc = "done" => frame.ret = "true"
  /\ (InStartLogin /\ frame.seen /\ frame.probes = 3) => frame.elapsed = 2 * checkInterval

C15_Witness ==
  /\ C15_Scenario
  /\ frame.ret = "true"
  /\ frame.probes = 4
  /\ frame.elapsed = 6000

\* The session files are what they were before the step
FilesUnchanged == world'.cookies = world.cookies /\ world'.state = world.state

\* C16: in every startLogin, saveSession is invoked exactly once when it
\* returns true, after the probe that observed the logged-in state and before
\* the return, and never when it returns false (navigation failure or login
\* timeout); no step of restoreSession writes cookies.json or state.json.
C16_SavedOnlyAfterLoggedIn ==
  /\ [](InStartLogin =>
          /\ frame.saves <= 1
          /\ frame.saves = 1 => (frame.seen /\ frame.dom.loggedIn /\ ~frame.dom.login)
          /\ frame.ret = "true" => frame.saves = 1
          /\ frame.ret \in {"false", "raised"} => frame.saves = 0
          /\ frame.pc # "done" => frame.saves = 0)
  /\ [](InRestore => frame.saves = 0)
  /\ [][frame'.call = "restoreSession" => FilesUnchanged]_vars
  /\ [][(InStartLogin /\ frame'.call = "startLogin" /\ ~FilesUnchanged) =>
          (frame.pc = "save" /\ frame'.ret = "true")]_vars

\* startLogin returned true on a profile that held no files: saved once.
C16_Witness ==
  /\ InStartLogin
  /\ frame.ret = "true"
  /\ frame.saves = 1
  /\ world.cookies /\ world.state
  /\ world.launches = 1

\* The step is a call of restoreSession
RestoreCall == Returned /\ frame'.call = "restoreSession"

\* C17: restoreSession on a profile directory that holds neither cookies.json
\* nor state.json returns false with no browser launch: no context or page is
\* created and the page and context fields of the manager are unchanged.
C17_RestoreWithoutArtifactsIsNoOp ==
  [][(RestoreCall /\ ~world.cookies /\ ~world.state) =>
       /\ frame'.pc = "done" /\ frame'.ret = "false"
       /\ frame'.launched = 0
       /\ world'.launches = world.launches /\ world'.open = world.open
       /\ getPage' = getPage /\ getContext' = getContext]_vars

\* restoreSession returned false without a launch, on a manager whose fields an
\* earlier startLogin had set.
C17_Witness ==
  /\ InRestore
  /\ ~world.cookies /\ ~world.state
  /\ frame.ret = "false"
  /\ frame.launched = 0
  /\ world.launches = 1
  /\ getContext = 1 /\ getPage = 1

\* C18: restoreSession returns true only if navigation succeeded and its
\* login-state probe observed the logged-in state (a logged-in indicator and
\* no login indicator); it probes once per call, after navigation, and a probe
\* answered false is never repeated: the call then ends with false.
C18_RestoreProbesOnce ==
  /\ [](InRestore =>
          /\ frame.probes <= 1
          /\ frame.probes = 1 => frame.nav = "succeeded"
          /\ frame.ret = "true" =>
               /\ frame.nav = "succeeded" /\ frame.probes = 1 /\ frame.seen
               /\ frame.dom.loggedIn /\ ~frame.dom.login
          /\ (frame.probes = 1 /\ ~(frame.dom.loggedIn /\ ~frame.dom.login)) =>
               /\ frame.pc \in {"teardown", "catch", "done"}
               /\ frame.pc = "done" => frame.ret \in {"false", "raised"})
  /\ [][(InRestore /\ ~Returned /\ frame.probes = 1) => frame'.probes = 1]_vars

\* The one probe saw the login page: false.
C18_Witness ==
  /\ InRestore
  /\ frame.nav = "succeeded"
  /\ frame.probes = 1
  /\ frame.dom.login
  /\ frame.ret = "false"

\* C19: when restoreSession has launched a context and returns false
\* (navigation failed 3 times, the probe did not see the logged-in state, or
\* applying the saved state raised), that context is closed and getPage() and
\* getContext() are null.
C19_FailedRestoreLeaksNothing ==
  (InRestore /\ frame.launched # 0 /\ frame.ret = "false") =>
    /\ frame.launched \notin world.open
    /\ getPage = 0
    /\ getContext = 0

\* Three failed navigations after a launch: closed, null, false.
C19_Witness ==
  /\ InRestore
  /\ frame.launched # 0
  /\ frame.nav = "failed"
  /\ frame.attempts = 3
  /\ frame.ret = "false"
  /\ getContext = 0

\* C20 (as claimed): getPage() and getContext() are null in every state in
\* which no startLogin or restoreSession has yet returned true, also while a
\* startLogin is navigating or polling and after a startLogin that returned
\* false.
C20_NullUntilConfirmed ==
  ~world.confirmed => (getPage = 0 /\ getContext = 0)

InClose == frame.call = "close"

\* C21 (as claimed): close() is idempotent: in any state, any number of times,
\* every call completes without raising and touches no page or context that is
\* already closed; an open context is closed by the first call.
C21_CloseIsIdempotent ==
  InClose =>
    /\ frame.ret = "returned"
    /\ ~frame.touched
    /\ getContext \notin world.open

\* Some selector of the list yielded an element
IndicatorPresent(selectors) ==
  \E i \in DOMAIN selectors : probe.answers[selectors[i]] = "element"

\* C22: checkIfLoggedIn returns true if and only if there is a page, no
\* login-page indicator is found and at least one logged-in indicator is found:
\* a page showing both is not logged in, a page showing neither is not logged
\* in, no page is not logged in.  Login indicators are queried first, and once
\* one is found no logged-in indicator is queried.
C22_LoginDetectionFailsClosed ==
  probe.done =>
    /\ probe.result.isLoggedIn <=>
         (probe.page # 0 /\ ~IndicatorPresent(LOGIN_SELECTORS)
            /\ IndicatorPresent(LOGGED_IN_SELECTORS))
    /\ probe.result.isLoggedIn = checkIfLoggedIn(probe.page, DomOf(probe.answers))
    /\ (probe.page # 0 /\ IndicatorPresent(LOGIN_SELECTORS)) =>
         \A k \in DOMAIN probe.result.queried :
           \E i \in DOMAIN LOGIN_SELECTORS : probe.result.queried[k] = LOGIN_SELECTORS[i]
    /\ probe.result.queried # <<>> => probe.result.queried[1] = LOGIN_SELECTORS[1]

\* A page with a login indicator and a logged-in indicator: not logged in.
C22_Witness ==
  /\ probe.done
  /\ probe.page # 0
  /\ IndicatorPresent(LOGIN_SELECTORS)
  /\ IndicatorPresent(LOGGED_IN_SELECTORS)
  /\ ~probe.result.isLoggedIn

\* C23: whatever step of saveSession fails (mkdir, cookies(), storageState(),
\* either writeFile), startLogin returns true, does not raise, and its page
\* and context stay in the fields, the context open.
C23_SaveFailureKeepsLogin ==
  (InStartLogin /\ frame.saves = 1) =>
    /\ frame.ret = "true"
    /\ getPage = frame.launched /\ getContext = frame.launched
    /\ getContext # 0
    /\ getContext \in world.open

\* saveSession failed before writing anything: true all the same.
C23_Witness ==
  /\ InStartLogin
  /\ frame.saved = "failedBeforeCookies"
  /\ frame.ret = "true"
  /\ ~world.cookies /\ ~world.state
  /\ getContext \in world.open

\* C24 (as claimed): starting from a profile directory with neither file, after
\* any saveSession, completed or failed part-way, cookies.json and state.json
\* both exist or neither does (so that a restoreSession after a failed save
\* finds no artifacts).
C24_FilesWrittenTogether ==
  world.pristine => (world.cookies <=> world.state)


(***************************************************************************)
(* Properties of the field locator and of browser_fill_form                *)
(***************************************************************************)
Resolved == loc.done /\ loc.call = "resolveFieldLocator"

\* The positions of the factories built whose element the page shows
Hits == {i \in 1..Len(loc.resolved.factories) : loc.resolved.factories[i] \in loc.page}

\* C25: resolveFieldLocator invokes the factories one at a time in list order
\* and returns the locator of the first whose element becomes available; no
\* factory after it is invoked.
C25_FirstSuccessWins ==
  (Resolved /\ Hits # {}) =>
    LET first == CHOOSE i \in Hits : \A j \in Hits : i <= j
    IN  /\ ~loc.resolved.threw
        /\ loc.resolved.found = loc.resolved.factories[first]
        /\ loc.resolved.invoked = SubSeq(loc.resolved.factories, 1, first)

\* Identifiers [A, B], A's exact label resolves though B's strategies and the
\* fallbacks would too: only A's first factory is invoked.
C25_Witness ==
  /\ Resolved
  /\ loc.identifiers = <<Str("A"), Str("B")>>
  /\ Len(loc.fallbackLocators) = 2
  /\ Factory("getByLabel", TRUE, "A") \in loc.page
  /\ Factory("getByLabel", TRUE, "B") \in loc.page
  /\ loc.fallbackLocators[1] \in loc.page
  /\ loc.resolved.invoked = <<Factory("getByLabel", TRUE, "A")>>
  /\ loc.resolved.found = Factory("getByLabel", TRUE, "A")

\* The strings of the identifiers list that are not blank
Named == {loc.identifiers[i].v : i \in {j \in 1..Len(loc.identifiers) :
                                          /\ loc.identifiers[j].t = "string"
                                          /\ loc.identifiers[j].v \notin {"", " "}}}

\* C26: when no factory's element shows up, resolveFieldLocator raises one
\* Error after having invoked every factory once, in order; the message names
\* every identifier tried, or says there were none; no locator is returned.
C26_ExhaustionRaisesOnce ==
  (Resolved /\ Hits = {}) =>
    /\ loc.resolved.threw
    /\ loc.resolved.found = NoFactory
    /\ loc.resolved.invoked = loc.resolved.factories
    /\ IF Named = {}
       THEN loc.resolved.message = <<"no accessible identifiers">>
       ELSE /\ {loc.resolved.message[i] : i \in 1..Len(loc.resolved.message)} = Named
            /\ Len(loc.resolved.message) = Cardinality(Named)

\* Two identifiers and two fallbacks, ten factories all tried in vain.
C26_Witness ==
  /\ Resolved
  /\ loc.identifiers = <<Str("B"), Str("A")>>
  /\ Len(loc.fallbackLocators) = 2
  /\ loc.resolved.threw
  /\ Len(loc.resolved.invoked) = 10
  /\ loc.resolved.message = <<"B", "A">>

\* The priority class of a factory
Priority(factory) ==
  CASE factory.strategy = "getByLabel" /\ factory.exact -> 1
    [] factory.strategy = "getByLabel" -> 2
    [] factory.strategy = "getByPlaceholder" /\ factory.exact -> 3
    [] factory.strategy = "getByPlaceholder" -> 4
    [] OTHER -> 5

\* C27 (as claimed): for every identifier list, a factory is attempted only
\* after every factory of each higher priority class (exact label, fuzzy label,
\* exact placeholder, fuzzy placeholder, fallback) has been attempted.
C27_PriorityClassOrder ==
  Resolved =>
    \A j \in 1..Len(loc.resolved.invoked) :
      \A k \in 1..Len(loc.resolved.factories) :
        Priority(loc.resolved.factories[k]) < Priority(loc.resolved.invoked[j]) =>
          \E i \in 1..(j - 1) : loc.resolved.invoked[i] = loc.resolved.factories[k]

\* The distinct non-blank identifiers in the order of their first occurrence
InOrder(i) ==
  CHOOSE id \in Named :
    Cardinality({other \in Named :
                   (CHOOSE p \in 1..Len(loc.identifiers) :
                      /\ loc.identifiers[p] = Str(other)
                      /\ \A q \in 1..(p - 1) : loc.identifiers[q] # Str(other))
                   < (CHOOSE p \in 1..Len(loc.identifiers) :
                        /\ loc.identifiers[p] = Str(id)
                        /\ \A q \in 1..(p - 1) : loc.identifiers[q] # Str(id))})
      = i - 1

\* The order the code follows instead: identifier by identifier in list order,
\* for each identifier exact label, fuzzy label, exact placeholder, fuzzy
\* placeholder, and the fallbacks after the last identifier.
IdentifierMajorOrder ==
  Resolved =>
    \A j \in 1..Len(loc.resolved.invoked) :
      IF j <= 4 * Cardinality(Named)
      THEN /\ loc.resolved.invoked[j].identifier = InOrder(((j - 1) \div 4) + 1)
           /\ Priority(loc.resolved.invoked[j]) = ((j - 1) % 4) + 1
      ELSE loc.resolved.invoked[j] = loc.fallbackLocators[j - 4 * Cardinality(Named)]

\* Identifiers [A, B] as for a radio field: A's fuzzy label is attempted
\* second, before B's exact label, and a fallback is reached last.
FuzzyBeforeExact ==
  /\ Resolved
  /\ loc.identifiers = <<Str("A"), Str("B")>>
  /\ Len(loc.resolved.invoked) = 9
  /\ loc.resolved.invoked[2] = Factory("getByLabel", FALSE, "A")
  /\ loc.resolved.invoked[5] = Factory("getByLabel", TRUE, "B")
  /\ loc.resolved.invoked[9] = loc.fallbackLocators[1]
  /\ ~loc.resolved.threw

\* C28: no factory is built from an undefined, empty or whitespace-only
\* identifier, a repeated identifier gets its four factories once, and an
\* exhausted resolution makes 4 x (distinct non-blank identifiers) +
\* (fallbacks) attempts.
C28_BlanksAndDuplicatesDropped ==
  Resolved =>
    LET built == loc.resolved.factories
    IN  /\ \A k \in 1..Len(built) :
             Priority(built[k]) < 5 => built[k].identifier \in Named
        /\ \A k, l \in 1..Len(built) :
             (Priority(built[k]) < 5 /\ built[k] = built[l]) => k = l
        /\ Len(built) = 4 * Cardinality(Named) + Len(loc.fallbackLocators)
        /\ loc.resolved.threw => Len(loc.resolved.invoked) = Len(built)

\* [A, A] with one fallback, nothing found: five attempts, not nine.
C28_Witness ==
  /\ Resolved
  /\ loc.identifiers = <<Str("A"), Str("A")>>
  /\ Len(loc.fallbackLocators) = 1
  /\ loc.resolved.threw
  /\ Len(loc.resolved.invoked) = 5

\* [undefined, " "]: no identifier factory at all.
C28_WitnessBlank ==
  /\ Resolved
  /\ loc.identifiers = <<Undefined, Str(" ")>>
  /\ Len(loc.fallbackLocators) = 1
  /\ loc.resolved.threw
  /\ loc.resolved.invoked = loc.fallbackLocators

\* C29 (as claimed): when browser_fill_form cannot locate a requested field,
\* every strategy exhausted, the result of the call has isError = true.
C29_ExhaustionIsAnErrorResult ==
  (loc.done /\ loc.call = "browser_fill_form" /\ loc.exhausted # {}) =>
    loc.result.isError


\* C30 (as claimed): after any sequence of startLogin, restoreSession and
\* close calls on one HumanInLoopLogin, every context it launched is the one
\* getContext() returns or is closed: none stays open and unreachable.
C30_AtMostOneOpenContext ==
  Returned => world.open \subseteq {getContext}


\* C33 (as claimed): when the final screenshot of close() fails (page already
\* closed, screenshots directory missing), close() does not raise and the
\* context that was open is closed.
C33_ScreenshotIsBestEffort ==
  (InClose /\ frame.shot = "throws") =>
    /\ frame.ret = "returned"
    /\ frame.before.context \notin world.open

\* C38 (as claimed): restoreSession never raises; a call that launched a
\* browser and returns false (launch, state.json, addCookies or cleanup-close
\* failure included) leaves getPage() and getContext() null.
C38_RestoreNeverRaises ==
  (InRestore /\ frame.pc = "done") =>
    /\ frame.ret \in {"true", "false"}
    /\ (frame.ret = "false" /\ ~noSavedSession(world)) => (getPage = 0 /\ getContext = 0)


\* C31 (as claimed): before launching, startLogin removes each of
\* SingletonLock and SingletonSocket that exists (and may be removed), whether
\* or not the other exists, and a cleanup failure never aborts startLogin.
C31_LocksClearedIndependently ==
  locks.pc \in {"launching", "raised"} =>
    /\ locks.pc = "launching"
    /\ \A f \in Locks : (f \in locks.before /\ f \notin locks.denied) => f \notin locks.files


\* C32 (as claimed): fed the same sequence of navigation outcomes (exception,
\* expected title, unexpected title), restoreSession and startLogin make the
\* same number of attempts and reach the same verdict.
C32_SameRetryPolicy ==
  /\ nav.restore.attempts = nav.start.attempts
  /\ nav.restore.verdict = nav.start.verdict


\* The number a numeric token stands for
NumberOf(value) ==
  CASE value.v = "-1" -> 0 - 1
    [] value.v = "0" -> 0
    [] value.v = "5" -> 5
    [] OTHER -> 300001

\* The strings of FilenameValues that match ^[a-zA-Z0-9._-]+$
MatchesPattern(value) == value.v \in {"shot", "final-state.v2"}

\* An argument of the declared type outside its declared range or pattern
OutOfBounds(schema, key, value) ==
  LET propSchema == PropOf(SchemaOf(schema), key)
  IN  \/ /\ propSchema.hasRange
         /\ NumberOf(value) < propSchema.minimum \/ NumberOf(value) > propSchema.maximum
      \/ propSchema.pattern # "none" /\ ~MatchesPattern(value)

\* C34 (as claimed): an argument below its schema minimum, above its maximum
\* or not matching its pattern is rejected with a validation error before the
\* handler runs.
C34_RangeAndPatternEnforced ==
  (val.done /\ val.exec.called
     /\ \E k \in DOMAIN val.args.obj : OutOfBounds(val.schema, k, val.args.obj[k])) =>
    /\ val.exec.kind = "VALIDATION_ERROR"
    /\ val.exec.handler = "notRun"


(***************************************************************************)
(* Properties of the dialog handlers                                       *)
(***************************************************************************)
\* The dialogs on which registration id made a call
HandledBy(id) ==
  {d \in 1..Len(dialog.dialogs) :
     \E c \in 1..Len(dialog.dialogs[d].calls) : dialog.dialogs[d].calls[c].by = id}

\* C35: the handler a browser_handle_dialog call registers consumes at most
\* one dialog event: once it has handled a dialog it is no longer listening and
\* handles no later one.
C35_RegistrationIsOneShot ==
  \A id \in 1..MaxRegistrations :
    /\ Cardinality(HandledBy(id)) <= 1
    /\ HandledBy(id) # {} => \A i \in 1..Len(dialog.listeners) : dialog.listeners[i].id # id

\* A registration handled the first dialog; the second dialog came and that
\* registration made no call on it.
C35_Witness ==
  /\ Len(dialog.dialogs) = 2
  /\ HandledBy(1) = {1}
  /\ dialog.dialogs[2].calls = <<>>

\* C36 (as claimed): whatever the number of browser_handle_dialog calls made
\* before a dialog appears, at most one handler accepts or dismisses that
\* dialog.
C36_OneHandlerPerDialog ==
  \A d \in 1..Len(dialog.dialogs) : Len(dialog.dialogs[d].calls) <= 1


(***************************************************************************)
(* Properties of the record buffers                                        *)
(***************************************************************************)
\* The stored list is the newest entries pushed, at most MAX_TRACKED_ENTRIES
\* of them, in the order they were pushed
NewestKept ==
  track.has =>
    LET all == track.pushed
        kept == IF Len(all) > 2000 THEN 2000 ELSE Len(all)
    IN  track.store = SubSeq(all, Len(all) - kept + 1, Len(all))

\* C39 (as claimed): the list stored for a page never holds more than 2000
\* entries, it is the newest entries in arrival order, the tracking listeners
\* are attached at most once per page, and a callback that completes after the
\* close event of the page records nothing.
C39_BuffersBoundedAndAttachedOnce ==
  /\ Len(track.store) <= 2000
  /\ NewestKept
  /\ track.attached <= 1
  /\ track.late = {}


(***************************************************************************)
(* Properties of the page/context pair                                     *)
(***************************************************************************)
\* The pair of the manager is in the registry and in every registered tool,
\* and a handler run by executeTool was handed that pair
PairEverywhere ==
  /\ mgr.page # "null" =>
       /\ regPage = MgrContext(mgr)
       /\ \A n \in AllNames :
            reg[n].present => (reg[n].page = mgr.page /\ reg[n].context = mgr.context)
  /\ (last.op = "executeTool" /\ last.exec.called /\ last.exec.handler # "notRun") =>
       (last.exec.page = mgr.page /\ last.exec.context = mgr.context)

\* Only initialize and updatePageContext change the pair; a tool execution
\* changes neither the manager's context nor the registry nor any tool
PairFrame ==
  /\ (MgrContext(mgr') # MgrContext(mgr) \/ regPage' # regPage) =>
       last'.op \in {"initialize", "updatePageContext"}
  /\ last'.op \in {"executeTool", "execute"} =>
       (mgr' = mgr /\ regPage' = regPage /\ reg' = reg)

=============================================================================
